---- MODULE Spec2Model ----
(***************************************************************************)
(* Appointment scheduling of the Patient Dashboard backend: the            *)
(* appointment collection with its unique (doctor, date, time) index, the  *)
(* create / update / cancel handlers as sequences of awaited store         *)
(* operations that interleave between requests, and the availability       *)
(* calculator.                                                             *)
(*                                                                         *)
(* A time is the string the code stores, written here as the tuple of its  *)
(* characters (<<"0","9",":","0","0">> is "09:00"), so that "9:00" and     *)
(* "09:00" are different strings that parse to the same minute.  A date is *)
(* the Date value the code builds with new Date(date); the store compares  *)
(* dates by value.                                                         *)
(***************************************************************************)
EXTENDS Integers, Sequences, FiniteSets, Bags, TLC

VARIABLES
    appts,      \* the appointment collection: appts[i] is the document with _id i
    created,    \* history: created[i] is document i as it was inserted
    users,      \* the account collection
    patients,   \* the patient collection
    req,        \* the bag of requests being handled, each with its position
    last        \* the response sent by the step just taken, if it sent one

vars == <<appts, created, users, patients, req, last>>

----------------------------------------------------------------------------
\* Bounds of the model

MaxAppts == 2         \* documents the collection may hold
MaxReq == 2           \* requests handled at once
MaxAvailAppts == 2    \* documents of the collections the calculator is applied to

Ids == 1..MaxAppts

----------------------------------------------------------------------------
\* Strings

Digits == <<"0", "1", "2", "3", "4", "5", "6", "7", "8", "9">>

IsDigit(c) == \E i \in 1..10 : Digits[i] = c

DigitVal(c) == (CHOOSE i \in 1..10 : Digits[i] = c) - 1

\* parseInt / Number of a string of decimal digits
RECURSIVE parseInt(_)
parseInt(s) ==
    IF Len(s) = 0 THEN 0
    ELSE 10 * parseInt(SubSeq(s, 1, Len(s) - 1)) + DigitVal(s[Len(s)])

\* n.toString() for 0 <= n <= 99
toString(n) ==
    IF n < 10 THEN <<Digits[n + 1]>>
    ELSE <<Digits[(n \div 10) + 1], Digits[(n % 10) + 1]>>

\* s.padStart(2, '0')
padStart2(s) == IF Len(s) < 2 THEN <<"0">> \o s ELSE s

\* s.split(':') of a string holding one ':'
split(s) ==
    LET i == CHOOSE k \in 1..Len(s) : s[k] = ":"
    IN  <<SubSeq(s, 1, i - 1), SubSeq(s, i + 1, Len(s))>>

\* /^([0-1]?[0-9]|2[0-3]):[0-5][0-9]$/
TimeFormatOK(s) ==
    /\ Cardinality({k \in 1..Len(s) : s[k] = ":"}) = 1
    /\ LET h == split(s)[1]
           m == split(s)[2]
       IN  /\ \/ Len(h) = 1 /\ IsDigit(h[1])
              \/ Len(h) = 2 /\ h[1] \in {"0", "1"} /\ IsDigit(h[2])
              \/ Len(h) = 2 /\ h[1] = "2" /\ h[2] \in {"0", "1", "2", "3"}
           /\ Len(m) = 2
           /\ m[1] \in {"0", "1", "2", "3", "4", "5"}
           /\ IsDigit(m[2])

MinDuration == 15
MaxDuration == 480

DurationOK(d) == d \in MinDuration..MaxDuration

\* hours * 60 + minutes of a stored time string
StartMinutes(t) == parseInt(split(t)[1]) * 60 + parseInt(split(t)[2])

----------------------------------------------------------------------------
\* Values of the fields

T0800 == <<"0", "8", ":", "0", "0">>
T0900 == <<"0", "9", ":", "0", "0">>
T900  == <<"9", ":", "0", "0">>
T0930 == <<"0", "9", ":", "3", "0">>
T1245 == <<"1", "2", ":", "4", "5">>
T1630 == <<"1", "6", ":", "3", "0">>
T1700 == <<"1", "7", ":", "0", "0">>

Statuses == {"scheduled", "confirmed", "in-progress", "completed", "cancelled", "no-show"}
Inactive == {"cancelled", "no-show"}

NoUser == 0
NoDate == 0

\* The accounts and patients present while the appointment requests run
InitUsers ==
    <<[role |-> "doctor", isActive |-> TRUE],
      [role |-> "admin",  isActive |-> TRUE],
      [role |-> "staff",  isActive |-> TRUE],
      [role |-> "nurse",  isActive |-> FALSE]>>

InitPatients == <<[isActive |-> TRUE], [isActive |-> FALSE]>>

NoResp == [kind |-> "none"]

----------------------------------------------------------------------------
\* The inputs the requests are drawn from.  clients: the accounts that send
\* requests; posts: bodies of POST; puts: bodies of PUT (any subset of the
\* fields may be sent); doctors, dates: parameters of the availability query.

Racing ==
    [conc |-> MaxReq,
     clients |-> {1},
     posts |-> [patient : {1}, doctor : {1}, date : {1},
                time : {T0900, T0930}, duration : {60}]
               \cup [patient : {2}, doctor : {1}, date : {1},
                     time : {T0900}, duration : {60}]
               \cup [patient : {1}, doctor : {3}, date : {1},
                     time : {T0900}, duration : {60}],
     puts |-> {[time |-> T0930], [status |-> "scheduled"]},
     doctors |-> {1},
     dates |-> {1}]

Booking ==
    [conc |-> 1,
     clients |-> {1},
     posts |-> [patient : {1, 2}, doctor : {1, 3}, date : {1},
                time : {T900, T0930}, duration : {30, 60}],
     puts |-> {[time |-> t] : t \in {T900, T0930}}
              \cup {[status |-> st] : st \in {"scheduled", "no-show"}}
              \cup {[duration |-> d] : d \in {30, 60}},
     doctors |-> {1, 2},
     dates |-> {1, NoDate}]

Calculating ==
    [conc |-> 0,
     clients |-> {1},
     posts |-> {},
     puts |-> {},
     doctors |-> {1, 2},
     dates |-> {1, 2}]

----------------------------------------------------------------------------
\* The stores

Init ==
    /\ appts = <<>>
    /\ created = <<>>
    /\ users = InitUsers
    /\ patients = InitPatients
    /\ req = EmptyBag
    /\ last = NoResp

\* Patient.findOne({ _id: patientId, isActive: true })
FindActivePatient(patientId) ==
    patientId \in DOMAIN patients /\ patients[patientId].isActive

\* User.findOne({ _id: doctorId, isActive: true, role: { $in: ['doctor', 'admin'] } })
FindDoctor(doctorId) ==
    /\ doctorId \in DOMAIN users
    /\ users[doctorId].isActive
    /\ users[doctorId].role \in {"doctor", "admin"}

\* Mutant: the filter leaves out no-show
StatusNinCancelled(doc) == doc.status # "cancelled"

\* status: { $nin: ['cancelled', 'no-show'] }
StatusNin(doc) == doc.status \notin Inactive

\* Mutant: the query takes only confirmed or in-progress appointments as blocking
ConflictingAppointmentConfirmedOnly(doctor, date, time, exceptId) ==
    \E i \in DOMAIN appts :
        /\ i # exceptId
        /\ appts[i].doctor = doctor
        /\ appts[i].date = date
        /\ appts[i].time = time
        /\ appts[i].status \in {"confirmed", "in-progress"}

\* Mutant: the update's query without its _id: { $ne: req.params.id } condition
ConflictingAppointmentAnyId(doctor, date, time, exceptId) ==
    \E i \in DOMAIN appts :
        /\ appts[i].doctor = doctor
        /\ appts[i].date = date
        /\ appts[i].time = time
        /\ StatusNin(appts[i])

\* Mutant: the query also takes an active appointment whose interval holds the
\* new start time as blocking
ConflictingAppointmentOverlapping(doctor, date, time, exceptId) ==
    \E i \in DOMAIN appts :
        /\ i # exceptId
        /\ appts[i].doctor = doctor
        /\ appts[i].date = date
        /\ StartMinutes(appts[i].time) <= StartMinutes(time)
        /\ StartMinutes(time) < StartMinutes(appts[i].time) + appts[i].duration
        /\ StatusNin(appts[i])

\* Appointment.findOne({ _id: { $ne: exceptId }, doctor, date, time, status: { $nin: [...] } });
\* the create handler passes no _id condition (exceptId = 0)
ConflictingAppointment(doctor, date, time, exceptId) ==
    \E i \in DOMAIN appts :
        /\ i # exceptId
        /\ appts[i].doctor = doctor
        /\ appts[i].date = date
        /\ appts[i].time = time
        /\ StatusNin(appts[i])

\* appointmentSchema.index({ doctor: 1, date: 1, time: 1 }, { unique: true }):
\* the key of a document, whatever its status
IndexKey(doc) == <<doc.doctor, doc.date, doc.time>>

\* Mutant: the index is declared without unique: true
DuplicateKeyNotUnique(id, doc) == FALSE

\* Mutant: a partial index over the active documents only
DuplicateKeyAmongActive(id, doc) ==
    \E j \in DOMAIN appts :
        j # id /\ IndexKey(appts[j]) = IndexKey(doc) /\ StatusNin(appts[j])

\* the write of doc as document id would leave two documents with one key
DuplicateKey(id, doc) ==
    \E j \in DOMAIN appts : j # id /\ IndexKey(appts[j]) = IndexKey(doc)

\* Schema validation run by save(): time format, duration range, status enum
SchemaValid(doc) ==
    /\ TimeFormatOK(doc.time)
    /\ DurationOK(doc.duration)
    /\ doc.status \in Statuses

----------------------------------------------------------------------------
\* Middleware

\* authenticate: the account named by the token exists and is active
Authenticate(u) ==
    IF u \in DOMAIN users /\ users[u].isActive THEN 0 ELSE 401

\* authorize(...roles)
Authorize(roles, u) ==
    IF users[u].role \in roles THEN 0 ELSE 403

WriteRoles == {"admin", "doctor", "nurse"}

\* router.use(authenticate), then authorize('admin', 'doctor', 'nurse')
WriteAccess(u) ==
    IF Authenticate(u) # 0 THEN Authenticate(u) ELSE Authorize(WriteRoles, u)

\* validateAppointmentCreation + handleValidationErrors
ValidateAppointmentCreation(b) ==
    IF TimeFormatOK(b.time) /\ DurationOK(b.duration) THEN 0 ELSE 400

Response(rq, status, outcome, data) ==
    [kind |-> rq.kind, status |-> status, success |-> status \in {200, 201},
     outcome |-> outcome, id |-> rq.id, body |-> rq.body,
     data |-> data, user |-> rq.user]

\* A request answered before its handler awaits anything but lookups
Refuse(rq, status, outcome) ==
    /\ req' = req
    /\ last' = Response(rq, status, outcome, <<>>)

\* A request stopped by authenticate or authorize
Denied(kind, u, status) ==
    Refuse([kind |-> kind, user |-> u, id |-> 0, body |-> <<>>], status,
           IF status = 401 THEN "unauthenticated" ELSE "forbidden")

\* A request that goes on to its next await
Enter(rq) ==
    /\ req' = req (+) SetToBag({rq})
    /\ last' = NoResp

Move(rq, next) ==
    /\ req' = (req (-) SetToBag({rq})) (+) SetToBag({next})
    /\ last' = NoResp

\* The response of a request in flight
Respond(rq, status, outcome, data) ==
    /\ req' = req (-) SetToBag({rq})
    /\ last' = Response(rq, status, outcome, data)

InFlight == BagToSet(req)

\* The POST requests in flight
PostsInFlight ==
    BagCardinality([rq \in {x \in InFlight : x.kind = "post"} |-> req[rq]])

----------------------------------------------------------------------------
\* POST /api/appointments

\* The middleware chain and the handler up to its conflict check.  The account
\* and patient collections do not change while appointment requests run, so
\* the lookups of the chain and the handler read one state.
PostCheck(in) ==
    /\ BagCardinality(req) < in.conc
    /\ Len(appts) + PostsInFlight < MaxAppts
    /\ \E u \in in.clients :
         IF WriteAccess(u) # 0
         THEN Denied("post", u, WriteAccess(u))
         ELSE \E b \in in.posts :
              LET rq == [kind |-> "post", pc |-> "save", user |-> u, id |-> 0, body |-> b]
              IN  IF ValidateAppointmentCreation(b) # 0
                  THEN Refuse(rq, 400, "validation")
                  ELSE IF ~FindActivePatient(b.patient)
                  THEN Refuse(rq, 400, "patient_not_found")
                  ELSE IF ~FindDoctor(b.doctor)
                  THEN Refuse(rq, 400, "doctor_not_found")
                  ELSE IF ConflictingAppointment(b.doctor, b.date, b.time, 0)
                  THEN Refuse(rq, 400, "conflict")
                  ELSE Enter(rq)
    /\ UNCHANGED <<appts, created, users, patients>>

Has(b, f) == f \in DOMAIN b

\* new Appointment({ ...req.body, createdBy: req.user._id })
\* status takes the schema default and updatedBy stays unset when the body
\* names neither
NewAppointment(b, u) ==
    [patient |-> b.patient, doctor |-> b.doctor, date |-> b.date, time |-> b.time,
     duration |-> b.duration,
     status |-> IF Has(b, "status") THEN b.status ELSE "scheduled",
     createdBy |-> u,
     updatedBy |-> IF Has(b, "updatedBy") THEN b.updatedBy ELSE NoUser]

\* appointment.save() of a new document, and the response
PostSave(rq) ==
    /\ rq.kind = "post" /\ rq.pc = "save"
    /\ LET doc == NewAppointment(rq.body, rq.user)
           id == Len(appts) + 1
       IN  IF ~SchemaValid(doc)
           THEN /\ Respond(rq, 500, "validation_error", <<>>)
                /\ UNCHANGED <<appts, created>>
           ELSE IF DuplicateKey(id, doc)
           THEN /\ Respond(rq, 500, "duplicate_key", <<>>)
                /\ UNCHANGED <<appts, created>>
           ELSE /\ appts' = Append(appts, doc)
                /\ created' = Append(created, doc)
                /\ req' = req (-) SetToBag({rq})
                /\ last' = Response([rq EXCEPT !.id = id], 201, "created", doc)
    /\ UNCHANGED <<users, patients>>

----------------------------------------------------------------------------
\* PUT /api/appointments/:id

\* Object.assign(appointment, req.body)
Assign(doc, b) == [f \in DOMAIN doc |-> IF Has(b, f) THEN b[f] ELSE doc[f]]

\* save() of a loaded document writes the paths that differ from what was loaded
ModifiedPaths(loaded, doc) == {f \in DOMAIN doc : doc[f] # loaded[f]}

Written(id, loaded, doc) ==
    [f \in DOMAIN doc |->
        IF f \in ModifiedPaths(loaded, doc) THEN doc[f] ELSE appts[id][f]]

\* Appointment.findById(req.params.id), the first await of the handler
FindById(rq, next) ==
    IF rq.id \in DOMAIN appts
    THEN Enter([rq EXCEPT !.pc = next, !.doc = appts[rq.id]])
    ELSE Refuse(rq, 404, "not_found")

\* The middleware chain and the handler's findById
PutFind(in) ==
    /\ BagCardinality(req) < in.conc
    /\ \E u \in in.clients :
         IF WriteAccess(u) # 0
         THEN Denied("put", u, WriteAccess(u))
         ELSE \E id \in Ids, b \in in.puts :
              FindById([kind |-> "put", pc |-> "find", user |-> u, id |-> id,
                        body |-> b, doc |-> <<>>],
                       IF Has(b, "date") \/ Has(b, "time") \/ Has(b, "doctor")
                       THEN "conflict" ELSE "save")
    /\ UNCHANGED <<appts, created, users, patients>>

PutCheckConflict(rq) ==
    /\ rq.kind = "put" /\ rq.pc = "conflict"
    /\ LET b == rq.body
           newDate == IF Has(b, "date") THEN b.date ELSE rq.doc.date
           newTime == IF Has(b, "time") THEN b.time ELSE rq.doc.time
           newDoctor == IF Has(b, "doctor") THEN b.doctor ELSE rq.doc.doctor
       IN  IF ConflictingAppointment(newDoctor, newDate, newTime, rq.id)
           THEN Respond(rq, 400, "conflict", <<>>)
           ELSE Move(rq, [rq EXCEPT !.pc = "save"])
    /\ UNCHANGED <<appts, created, users, patients>>

\* Mutant: on a duplicate key the fields outside the index are written all the same
SaveLoadedPartial(rq, doc, outcome) ==
    LET new == Written(rq.id, rq.doc, doc)
        cur == appts[rq.id]
    IN  IF ~SchemaValid(doc)
        THEN /\ Respond(rq, 500, "validation_error", <<>>)
             /\ UNCHANGED appts
        ELSE IF IndexKey(new) # IndexKey(cur) /\ DuplicateKey(rq.id, new)
        THEN /\ Respond(rq, 500, "duplicate_key", <<>>)
             /\ appts' = [appts EXCEPT ![rq.id] =
                    [new EXCEPT !.doctor = cur.doctor, !.date = cur.date, !.time = cur.time]]
        ELSE /\ appts' = [appts EXCEPT ![rq.id] = new]
             /\ Respond(rq, 200, outcome, new)

\* appointment.save() of a loaded document, and the response
SaveLoaded(rq, doc, outcome) ==
    LET new == Written(rq.id, rq.doc, doc)
    IN  IF ~SchemaValid(doc)
        THEN /\ Respond(rq, 500, "validation_error", <<>>)
             /\ UNCHANGED appts
        ELSE IF IndexKey(new) # IndexKey(appts[rq.id]) /\ DuplicateKey(rq.id, new)
        THEN /\ Respond(rq, 500, "duplicate_key", <<>>)
             /\ UNCHANGED appts
        ELSE /\ appts' = [appts EXCEPT ![rq.id] = new]
             /\ Respond(rq, 200, outcome, new)

PutSave(rq) ==
    /\ rq.kind = "put" /\ rq.pc = "save"
    /\ SaveLoaded(rq, [Assign(rq.doc, rq.body) EXCEPT !.updatedBy = rq.user], "updated")
    /\ UNCHANGED <<created, users, patients>>

----------------------------------------------------------------------------
\* DELETE /api/appointments/:id

NoBody == [x \in {} |-> x]

\* The middleware chain and the handler's findById
DeleteFind(in) ==
    /\ BagCardinality(req) < in.conc
    /\ \E u \in in.clients :
         IF WriteAccess(u) # 0
         THEN Denied("delete", u, WriteAccess(u))
         ELSE \E id \in Ids :
              FindById([kind |-> "delete", pc |-> "find", user |-> u, id |-> id,
                        body |-> NoBody, doc |-> <<>>], "save")
    /\ UNCHANGED <<appts, created, users, patients>>

DeleteSave(rq) ==
    /\ rq.kind = "delete" /\ rq.pc = "save"
    /\ SaveLoaded(rq, [rq.doc EXCEPT !.status = "cancelled", !.updatedBy = rq.user],
                  "cancelled")
    /\ UNCHANGED <<created, users, patients>>

----------------------------------------------------------------------------
\* GET /api/appointments/doctor/:doctorId/availability

WorkStart == 9
WorkEnd == 17
SlotDuration == 30

\* Appointment.find({ doctor, date, status: { $nin: [...] } }).select('time duration')
FindForAvailability(doctorId, date) ==
    LET Match(doc) == doc.doctor = doctorId /\ doc.date = date /\ StatusNin(doc)
    IN  SelectSeq(appts, Match)

\* Mutant: the overlap test compares with <= and >=, so touching intervals conflict
HasConflictClosed(found, hour, minute) ==
    \E k \in DOMAIN found :
        LET aptStartMinutes == StartMinutes(found[k].time)
            aptEndMinutes == aptStartMinutes + found[k].duration
            slotStartMinutes == hour * 60 + minute
            slotEndMinutes == slotStartMinutes + 30
        IN  slotStartMinutes <= aptEndMinutes /\ slotEndMinutes >= aptStartMinutes

\* Mutant: a slot conflicts only when an appointment starts inside it
HasConflictStartInside(found, hour, minute) ==
    \E k \in DOMAIN found :
        LET aptStartMinutes == StartMinutes(found[k].time)
            slotStartMinutes == hour * 60 + minute
            slotEndMinutes == slotStartMinutes + 30
        IN  slotStartMinutes < aptStartMinutes /\ aptStartMinutes < slotEndMinutes

\* Mutant: an appointment blocks a slot only when it starts before the slot
HasConflictEarlierStart(found, hour, minute) ==
    \E k \in DOMAIN found :
        LET aptStartMinutes == StartMinutes(found[k].time)
            aptEndMinutes == aptStartMinutes + found[k].duration
            slotStartMinutes == hour * 60 + minute
        IN  aptStartMinutes < slotStartMinutes /\ slotStartMinutes < aptEndMinutes

\* Mutant: an appointment that ends after the working window blocks no slot
HasConflictEndsInWindow(found, hour, minute) ==
    \E k \in DOMAIN found :
        LET aptStartMinutes == StartMinutes(found[k].time)
            aptEndMinutes == aptStartMinutes + found[k].duration
            slotStartMinutes == hour * 60 + minute
            slotEndMinutes == slotStartMinutes + SlotDuration
        IN  /\ aptEndMinutes <= WorkEnd * 60
            /\ slotStartMinutes < aptEndMinutes /\ slotEndMinutes > aptStartMinutes

\* appointments.some(apt => slotStartMinutes < aptEndMinutes && slotEndMinutes > aptStartMinutes)
HasConflict(found, hour, minute) ==
    \E k \in DOMAIN found :
        LET aptStartMinutes == StartMinutes(found[k].time)
            aptEndMinutes == aptStartMinutes + found[k].duration
            slotStartMinutes == hour * 60 + minute
            slotEndMinutes == slotStartMinutes + SlotDuration
        IN  slotStartMinutes < aptEndMinutes /\ slotEndMinutes > aptStartMinutes

\* `${hour.toString().padStart(2, '0')}:${minute.toString().padStart(2, '0')}`
TimeSlot(hour, minute) ==
    padStart2(toString(hour)) \o <<":">> \o padStart2(toString(minute))

\* The minutes the inner loop visits: 0, slotDuration, ... below 60
RECURSIVE MinuteLoop(_)
MinuteLoop(minute) ==
    IF minute < 60 THEN <<minute>> \o MinuteLoop(minute + SlotDuration) ELSE <<>>

\* The slots the two loops push, in the order they push them
RECURSIVE SlotLoop(_, _)
SlotLoop(found, hour) ==
    IF hour < WorkEnd
    THEN LET Free(minute) == ~HasConflict(found, hour, minute)
             free == SelectSeq(MinuteLoop(0), Free)
         IN  [k \in DOMAIN free |-> TimeSlot(hour, free[k])] \o SlotLoop(found, hour + 1)
    ELSE <<>>

AvailableSlots(found) == SlotLoop(found, WorkStart)

BookedSlots(found) ==
    [k \in DOMAIN found |-> [time |-> found[k].time, duration |-> found[k].duration]]

\* Mutant: availableSlots is declared outside the handler and kept between requests
AvailabilitySharedSlots(u, doctorId, date) ==
    LET rq == [kind |-> "availability", user |-> u, id |-> 0,
               body |-> [doctor |-> doctorId, date |-> date]]
        found == FindForAvailability(doctorId, date)
        kept == IF last # NoResp /\ last.kind = "availability" /\ last.success
                THEN last.data.availableSlots ELSE <<>>
    IN  /\ last' = IF Authenticate(u) # 0
                   THEN Response(rq, 401, "unauthenticated", <<>>)
                   ELSE IF date = NoDate
                   THEN Response(rq, 400, "date_required", <<>>)
                   ELSE Response(rq, 200, "ok",
                                 [availableSlots |-> kept \o AvailableSlots(found),
                                  bookedSlots |-> BookedSlots(found)])
        /\ UNCHANGED <<appts, created, users, patients, req>>

\* The handler has no await after the find: query and response are one step
Availability(u, doctorId, date) ==
    LET rq == [kind |-> "availability", user |-> u, id |-> 0,
               body |-> [doctor |-> doctorId, date |-> date]]
        found == FindForAvailability(doctorId, date)
    IN  /\ last' = IF Authenticate(u) # 0
                   THEN Response(rq, 401, "unauthenticated", <<>>)
                   ELSE IF date = NoDate
                   THEN Response(rq, 400, "date_required", <<>>)
                   ELSE Response(rq, 200, "ok",
                                 [availableSlots |-> AvailableSlots(found),
                                  bookedSlots |-> BookedSlots(found)])
        /\ UNCHANGED <<appts, created, users, patients, req>>

GetAvailability(in) ==
    \E u \in in.clients, doctorId \in in.doctors, date \in in.dates :
        Availability(u, doctorId, date)

----------------------------------------------------------------------------
\* Requests interleaved at their awaits

Next ==
    \/ PostCheck(Racing)
    \/ PutFind(Racing)
    \/ DeleteFind(Racing)
    \/ \E rq \in InFlight :
        \/ PostSave(rq)
        \/ PutCheckConflict(rq)
        \/ PutSave(rq)
        \/ DeleteSave(rq)

Spec == Init /\ [][Next]_vars

\* Requests handled one after the other, and availability queries
NextSeq ==
    \/ PostCheck(Booking)
    \/ PutFind(Booking)
    \/ DeleteFind(Booking)
    \/ GetAvailability(Booking)
    \/ \E rq \in InFlight :
        \/ PostSave(rq)
        \/ PutCheckConflict(rq)
        \/ PutSave(rq)
        \/ DeleteSave(rq)

SpecSeq == Init /\ [][NextSeq]_vars

----------------------------------------------------------------------------
\* The availability calculator applied to stored collections

Stored(doctor, date, time, duration, status) ==
    [patient |-> 1, doctor |-> doctor, date |-> date, time |-> time,
     duration |-> duration, status |-> status, createdBy |-> 1, updatedBy |-> NoUser]

\* Documents of one doctor and date at times before, inside, across and after the
\* working window, and one document each of another doctor and another date
CalcDocs ==
    {Stored(1, 1, t, d, "scheduled") : t \in {T0800, T900, T1245, T1630, T1700},
                                       d \in {15, 45, 480}}
    \cup {Stored(1, 1, t, 45, st) : t \in {T900, T1245}, st \in Inactive}
    \cup {Stored(2, 1, T0900, 45, "confirmed"), Stored(1, 2, T1245, 45, "completed")}

\* The collections the unique index allows
CalcStores ==
    {st \in UNION {[1..n -> CalcDocs] : n \in 0..MaxAvailAppts} :
        \A i, j \in DOMAIN st : i # j => IndexKey(st[i]) # IndexKey(st[j])}

InitAvail ==
    /\ appts \in CalcStores
    /\ created = appts
    /\ users = InitUsers
    /\ patients = InitPatients
    /\ req = EmptyBag
    /\ last = NoResp

NextAvail == GetAvailability(Calculating)

SpecAvail == InitAvail /\ [][NextAvail]_vars

----------------------------------------------------------------------------
\* Properties of the appointment store

\* An appointment that is neither cancelled nor no-show
Active(doc) == doc.status # "cancelled" /\ doc.status # "no-show"

EndMinutes(doc) == StartMinutes(doc.time) + doc.duration

KeyOf(b) == <<b.doctor, b.date, b.time>>

\* Some document at key k is active / is cancelled
ActiveAt(k) == \E i \in DOMAIN appts : IndexKey(appts[i]) = k /\ Active(appts[i])
CancelledAt(k) == \E i \in DOMAIN appts : IndexKey(appts[i]) = k /\ appts[i].status = "cancelled"

\* This step sends the response of request rq, which was in flight
Completes(rq) ==
    /\ rq \in BagToSet(req)
    /\ req' = req (-) SetToBag({rq})
    /\ last' # NoResp
    /\ last'.kind = rq.kind

\* This step is a POST refused before it awaited its save
RefusesPost == req' = req /\ last' # NoResp /\ last'.kind = "post" /\ last'.status # 401
                         /\ last'.status # 403

\* This step lets a POST with body b through its checks
AdmitsPost(b) == \E rq \in BagToSet(req') :
    rq.kind = "post" /\ rq.body = b /\ CopiesIn(rq, req') > CopiesIn(rq, req)

\* C1: in every reachable state, two appointments of one doctor on one date
\* whose status is neither cancelled nor no-show have wall-clock intervals
\* [start, start + duration) that do not overlap.
C1_ActiveIntervalsDisjoint ==
    \A i, j \in DOMAIN appts :
        (/\ i # j
         /\ appts[i].doctor = appts[j].doctor
         /\ appts[i].date = appts[j].date
         /\ Active(appts[i]) /\ Active(appts[j]))
        => ~(/\ StartMinutes(appts[i].time) < EndMinutes(appts[j])
             /\ StartMinutes(appts[j].time) < EndMinutes(appts[i]))

\* C2: a POST made while an appointment with a status other than cancelled and
\* no-show exists for its (doctor, date, time), its patient and doctor being
\* valid, is answered 400 with success = false: it is not let through to its
\* save and the collection stays as it is.
C2_ActiveSlotRejectsCreate ==
    [][/\ \A b \in Racing.posts :
            (/\ ActiveAt(KeyOf(b))
             /\ b.patient \in DOMAIN patients /\ patients[b.patient].isActive
             /\ b.doctor \in DOMAIN users /\ users[b.doctor].isActive
             /\ users[b.doctor].role \in {"doctor", "admin"})
            => /\ ~AdmitsPost(b)
               /\ (RefusesPost /\ last'.body = b)
                   => (last'.status = 400 /\ ~last'.success /\ appts' = appts)
       /\ \A rq \in BagToSet(req) :
            (Completes(rq) /\ rq.kind = "post" /\ last'.success)
            => ~ActiveAt(KeyOf(rq.body))]_vars

C2_Witness ==
    /\ last # NoResp
    /\ last.kind = "post" /\ last.outcome = "conflict"
    /\ last.status = 400 /\ ~last.success
    /\ Len(appts) = 1
    /\ Active(appts[1]) /\ IndexKey(appts[1]) = KeyOf(last.body)

\* No two documents, of any status, hold one (doctor, date, time)
KeysDistinct ==
    \A i, j \in DOMAIN appts : i # j => IndexKey(appts[i]) # IndexKey(appts[j])

\* The key the save of rq is about to write
TargetKey(rq) ==
    IF rq.kind = "post" THEN KeyOf(rq.body)
    ELSE LET cur == appts[rq.id]
             Sent(f) == f \in DOMAIN rq.body /\ rq.body[f] # rq.doc[f]
         IN  <<IF Sent("doctor") THEN rq.body.doctor ELSE cur.doctor,
               IF Sent("date") THEN rq.body.date ELSE cur.date,
               IF Sent("time") THEN rq.body.time ELSE cur.time>>

\* Some document other than rq's own holds rq's target key
KeyTaken(rq) ==
    \E j \in DOMAIN appts : j # rq.id /\ IndexKey(appts[j]) = TargetKey(rq)

\* C3: under every interleaving of create and update requests the collection
\* never holds two documents, of any status, with one (doctor, date, time);
\* a request whose write comes second to a key fails with the duplicate-key
\* error and leaves every document as it was.
C3_UniqueKeyUnderRaces ==
    /\ []KeysDistinct
    /\ [][\A rq \in BagToSet(req) :
            (Completes(rq) /\ rq.pc = "save" /\ KeyTaken(rq))
            => (last'.outcome = "duplicate_key" /\ ~last'.success /\ appts' = appts)]_vars

\* A create that passed its check loses the race to a document that has been
\* active at that key since it was inserted
C3_Witness ==
    /\ last # NoResp
    /\ last.kind = "post" /\ last.outcome = "duplicate_key"
    /\ \E i \in DOMAIN appts :
        /\ IndexKey(appts[i]) = KeyOf(last.body)
        /\ appts[i] = created[i]

\* C4: once an appointment at (D, date, time) is cancelled, a POST for the same
\* (D, date, time) passes the handler's conflict check, and its save is
\* rejected: no document is stored for it.
C4_CancelledSlotStaysTaken ==
    [][/\ \A rq \in BagToSet(req) :
            (Completes(rq) /\ rq.kind = "post" /\ CancelledAt(KeyOf(rq.body)))
            => (~last'.success /\ appts' = appts)
       /\ (RefusesPost /\ last'.outcome = "conflict") => ActiveAt(KeyOf(last'.body))
       /\ \A b \in Racing.posts :
            (/\ CancelledAt(KeyOf(b))
             /\ RefusesPost /\ last'.body = b)
            => last'.outcome \in {"patient_not_found", "doctor_not_found"}]_vars

C4_Witness ==
    /\ last # NoResp
    /\ last.kind = "post" /\ ~last.success /\ last.outcome = "duplicate_key"
    /\ Len(appts) = 1
    /\ appts[1].status = "cancelled"
    /\ IndexKey(appts[1]) = KeyOf(last.body)

\* C5: every create or update rejected for a collision on (doctor, date, time),
\* found by the handler's check or by the unique index, is answered with
\* status 400 and success = false.
C5_CollisionAnswered400 ==
    (last # NoResp /\ last.outcome \in {"conflict", "duplicate_key"})
    => (last.status = 400 /\ ~last.success)

\* C6: a create or update that is rejected (conflict, missing patient, missing
\* doctor, missing appointment, failed save) leaves the collection as it was,
\* and so does every step of a request before its save.
C6_RejectionWritesNothing ==
    [][/\ (last' # NoResp /\ last'.kind \in {"post", "put"} /\ ~last'.success)
            => appts' = appts
       /\ last' = NoResp => appts' = appts]_vars

C6_Witness ==
    /\ last # NoResp
    /\ last.kind = "put" /\ last.outcome = "duplicate_key"
    /\ Len(appts) = 2

----------------------------------------------------------------------------
\* Properties of the availability calculator

Range(seq) == {seq[k] : k \in DOMAIN seq}

HHMM(h1, h2, m1, m2) == <<h1, h2, ":", m1, m2>>

\* The 16 half-hour slots 09:00, 09:30, ..., 16:30
Grid ==
    {HHMM("0", "9", "0", "0"), HHMM("0", "9", "3", "0"),
     HHMM("1", "0", "0", "0"), HHMM("1", "0", "3", "0"),
     HHMM("1", "1", "0", "0"), HHMM("1", "1", "3", "0"),
     HHMM("1", "2", "0", "0"), HHMM("1", "2", "3", "0"),
     HHMM("1", "3", "0", "0"), HHMM("1", "3", "3", "0"),
     HHMM("1", "4", "0", "0"), HHMM("1", "4", "3", "0"),
     HHMM("1", "5", "0", "0"), HHMM("1", "5", "3", "0"),
     HHMM("1", "6", "0", "0"), HHMM("1", "6", "3", "0")}

\* The last step answered an availability query with its data
Answered == last # NoResp /\ last.kind = "availability" /\ last.success

\* The active appointments of the doctor and date the answered query named
Queried ==
    {i \in DOMAIN appts :
        /\ appts[i].doctor = last.body.doctor
        /\ appts[i].date = last.body.date
        /\ Active(appts[i])}

\* Slot [s, s + 30) overlaps appointment i
Overlaps(slot, i) ==
    /\ StartMinutes(slot) < EndMinutes(appts[i])
    /\ StartMinutes(slot) + 30 > StartMinutes(appts[i].time)

Blocked == {g \in Grid : \E i \in Queried : Overlaps(g, i)}

\* C7: the slots of availableSlots and the grid slots that overlap an active
\* appointment of the doctor and date are disjoint and together are exactly
\* the 16 half-hour slots 09:00 .. 16:30, and no slot of availableSlots
\* overlaps an active appointment of that doctor and date.
C7_SlotsPartitionGrid ==
    Answered =>
        LET free == Range(last.data.availableSlots)
        IN  /\ free \cup Blocked = Grid
            /\ free \cap Blocked = {}
            /\ \A sl \in free : \A i \in Queried : ~Overlaps(sl, i)

C7_Witness ==
    /\ Answered
    /\ Cardinality(Queried) = 2
    /\ Cardinality(Blocked) = 3
    /\ Len(last.data.availableSlots) = 13
    /\ \E i \in Queried : EndMinutes(appts[i]) > 17 * 60

\* C8: availableSlots is in strictly ascending time order, and bookedSlots
\* holds one (time, duration) pair for each appointment of the doctor and
\* date that is neither cancelled nor no-show, and no other pair.
C8_OrderedSlotsAndBookedPairs ==
    Answered =>
        LET free == last.data.availableSlots
            booked == last.data.bookedSlots
        IN  /\ \A k, l \in DOMAIN free :
                k < l => StartMinutes(free[k]) < StartMinutes(free[l])
            /\ Len(booked) = Cardinality(Queried)
            /\ \A p \in Range(booked) \cup
                        {[time |-> appts[i].time, duration |-> appts[i].duration] :
                            i \in Queried} :
                Cardinality({k \in DOMAIN booked : booked[k] = p})
                = Cardinality({i \in Queried : appts[i].time = p.time
                                               /\ appts[i].duration = p.duration})

C8_Witness ==
    /\ Answered
    /\ Len(last.data.bookedSlots) = 1
    /\ Len(last.data.availableSlots) > 1
    /\ \E i \in DOMAIN appts :
        /\ appts[i].doctor = last.body.doctor
        /\ appts[i].date = last.body.date
        /\ appts[i].status = "no-show"

\* Time t is one of the 16 grid times, however its hour is written
OnGrid(t) == \E g \in Grid : StartMinutes(g) = StartMinutes(t)

\* The answer omits time t and lists the pair (t, d)
OmitsAndBooks(t, d) ==
    /\ \A sl \in Range(last.data.availableSlots) : StartMinutes(sl) # StartMinutes(t)
    /\ [time |-> t, duration |-> d] \in Range(last.data.bookedSlots)

\* C9 as stated: after a successful create for doctor D on a date at grid time
\* t with duration d, every availability answer for D and that date given
\* while that appointment is neither cancelled nor no-show omits t from
\* availableSlots and lists (t, d) in bookedSlots.
C9_CreatedSlotStaysBooked ==
    Answered =>
        \A i \in DOMAIN appts :
            (/\ created[i].doctor = last.body.doctor
             /\ created[i].date = last.body.date
             /\ OnGrid(created[i].time)
             /\ Active(appts[i]))
            => OmitsAndBooks(created[i].time, created[i].duration)

\* C9 amended: every availability answer for D and a date given while an
\* appointment is neither cancelled nor no-show and has doctor D, that date,
\* grid time t and duration d omits t from availableSlots and lists (t, d) in
\* bookedSlots.
C9_CurrentSlotBooked ==
    Answered =>
        \A i \in DOMAIN appts :
            (/\ appts[i].doctor = last.body.doctor
             /\ appts[i].date = last.body.date
             /\ OnGrid(appts[i].time)
             /\ Active(appts[i]))
            => OmitsAndBooks(appts[i].time, appts[i].duration)

C9_Witness ==
    /\ Answered
    /\ Len(appts) = 1
    /\ appts[1] = created[1]
    /\ appts[1].doctor = last.body.doctor /\ appts[1].date = last.body.date
    /\ appts[1].time = T900
    /\ OmitsAndBooks(T900, appts[1].duration)
    /\ Len(last.data.availableSlots) < 16

----------------------------------------------------------------------------
\* Properties of cancellation

----------------------------------------------------------------------------
\* Credentials and the authenticate middleware

MaxUsers == 4         \* accounts the account collection may hold

\* What jwt.sign issued or a client forged: signature, expiry, and the userId claim
Tokens == [sig : {"good", "bad"}, expired : BOOLEAN, userId : 1..(MaxUsers + 1)]

EmptyToken == [sig |-> "", expired |-> FALSE, userId |-> NoUser]

\* A valid token of account u
TokenOf(u) == [sig |-> "good", expired |-> FALSE, userId |-> u]

\* The Authorization header: absent, "Bearer " + token, or the token alone
NoHeader == [scheme |-> "absent"]
Bearer(tok) == [scheme |-> "Bearer", token |-> tok]
Raw(tok) == [scheme |-> "raw", token |-> tok]

\* req.header('Authorization')?.replace('Bearer ', '')
HeaderToken(h) == IF h.scheme = "absent" THEN EmptyToken ELSE h.token

\* jwt.verify(token, JWT_SECRET): the error it throws, or "ok".
\* TokenExpiredError is a JsonWebTokenError and is caught by the first instanceof.
Verify(tok) ==
    IF tok.sig # "good" THEN "JsonWebTokenError"
    ELSE IF tok.expired THEN "TokenExpiredError"
    ELSE "ok"

\* Mutant: authenticate that does not look at isActive
AuthenticateHeaderAnyAccount(h) ==
    LET token == HeaderToken(h)
    IN  IF token = EmptyToken
        THEN [status |-> 401, reason |-> "no_token", user |-> NoUser]
        ELSE IF Verify(token) # "ok"
        THEN [status |-> 401, reason |-> "invalid_token", user |-> NoUser]
        ELSE IF token.userId \notin DOMAIN users
        THEN [status |-> 401, reason |-> "user_not_found", user |-> NoUser]
        ELSE [status |-> 0, reason |-> "ok", user |-> token.userId]

\* authenticate: the status it answers (0 when it calls next()) and req.user
AuthenticateHeader(h) ==
    LET token == HeaderToken(h)
    IN  IF token = EmptyToken
        THEN [status |-> 401, reason |-> "no_token", user |-> NoUser]
        ELSE IF Verify(token) # "ok"
        THEN [status |-> 401, reason |-> "invalid_token", user |-> NoUser]
        ELSE IF token.userId \notin DOMAIN users
        THEN [status |-> 401, reason |-> "user_not_found", user |-> NoUser]
        ELSE IF ~users[token.userId].isActive
        THEN [status |-> 401, reason |-> "deactivated", user |-> NoUser]
        ELSE [status |-> 0, reason |-> "ok", user |-> token.userId]

\* A request as it reaches a router: its credential, route, id parameter and body
Request(kind, h, id, b) ==
    [kind |-> kind, auth |-> h, user |-> AuthenticateHeader(h).user, id |-> id,
     body |-> b, pc |-> "start", doc |-> <<>>]

\* A response that also records the credential the request carried
Reply(rq, status, outcome, data) ==
    Response(rq, status, outcome, data) @@ [auth |-> rq.auth]

\* A request answered in the step that takes it up
Answer(rq, status, outcome, data) ==
    /\ req' = req
    /\ last' = Reply(rq, status, outcome, data)

\* A request in flight that goes on to its next await
Step(rq, next) ==
    /\ req' = (req (-) SetToBag({rq})) (+) SetToBag({next})
    /\ last' = NoResp

\* The response of a request in flight
Finish(rq, status, outcome, data) ==
    /\ req' = req (-) SetToBag({rq})
    /\ last' = Reply(rq, status, outcome, data)

\* Mutant: authorize that only requires an authenticated account
PermitAnyRole(roles, rq) == IF rq.user = NoUser THEN 401 ELSE 0

\* authorize(...roles) on req.user
Permit(roles, rq) ==
    IF rq.user = NoUser THEN 401
    ELSE IF users[rq.user].role \notin roles THEN 403
    ELSE 0

\* router.use(authenticate) and an optional authorize(...roles): the status the
\* middleware answers, 0 when the request reaches the validators
Guard(roles, rq) ==
    IF AuthenticateHeader(rq.auth).status # 0 THEN 401 ELSE Permit(roles, rq)

AllRoles == {"admin", "doctor", "nurse", "staff"}
AdminOnly == {"admin"}

----------------------------------------------------------------------------
\* The account collection and /api/users/:id

\* normalizeEmail() of the validators: the address in lower case
LowerCase(c) ==
    CASE c = "A" -> "a"
      [] c = "B" -> "b"
      [] OTHER -> c

normalizeEmail(e) == [k \in DOMAIN e |-> LowerCase(e[k])]

Account(username, email, role, isActive) ==
    [username |-> username, email |-> email, role |-> role, isActive |-> isActive]

\* User.findOne({ _id: id, isActive: true })
FindActiveUser(id) == id \in DOMAIN users /\ users[id].isActive

\* .select('-password'), toJSON(): the account as a response shows it
PublicUser(id) == users[id] @@ [id |-> id]

\* Mutant: only staff accounts are held to their own profile
NotSelfAndStaff(rq) == users[rq.user].role = "staff" /\ rq.user # rq.id

\* req.user.role !== 'admin' && req.user._id.toString() !== req.params.id
NotSelfNorAdmin(rq) == users[rq.user].role # "admin" /\ rq.user # rq.id

\* GET /api/users/:id
UserGet(in) ==
    /\ \E h \in in.headers, id \in in.userIds :
         LET rq == Request("user_get", h, id, NoBody)
         IN  IF Guard(AllRoles, rq) # 0
             THEN Answer(rq, Guard(AllRoles, rq), "denied", <<>>)
             ELSE IF ~FindActiveUser(id)
             THEN Answer(rq, 404, "not_found", <<>>)
             ELSE IF NotSelfNorAdmin(rq)
             THEN Answer(rq, 403, "access_denied", <<>>)
             ELSE Answer(rq, 200, "ok", PublicUser(id))
    /\ UNCHANGED <<appts, created, users, patients>>

\* Mutant: the body's role is kept whoever sends it
StripRoleNever(rq) == rq.body

\* if (req.user.role !== 'admin' && req.body.role) delete req.body.role
StripRole(rq) ==
    IF users[rq.user].role # "admin" /\ Has(rq.body, "role")
    THEN [f \in DOMAIN rq.body \ {"role"} |-> rq.body[f]]
    ELSE rq.body

\* if (req.body.email && req.body.email !== user.email)
ChecksEmail(b, doc) == Has(b, "email") /\ b.email # doc.email

\* if (req.body.username && req.body.username !== user.username)
ChecksUsername(b, doc) == Has(b, "username") /\ b.username # doc.username

\* The await a PUT reaches after the email lookup or in place of it
AfterEmail(b, doc) == IF ChecksUsername(b, doc) THEN "username" ELSE "save"

\* The await a PUT reaches after its findOne
AfterFind(b, doc) == IF ChecksEmail(b, doc) THEN "email" ELSE AfterEmail(b, doc)

\* PUT /api/users/:id up to its first lookup
UserPutFind(in) ==
    /\ BagCardinality(req) < in.conc
    /\ \E h \in in.headers, id \in in.userIds, b \in in.userPuts :
         LET rq == Request("user_put", h, id, b)
         IN  IF Guard(AllRoles, rq) # 0
             THEN Answer(rq, Guard(AllRoles, rq), "denied", <<>>)
             ELSE IF ~FindActiveUser(id)
             THEN Answer(rq, 404, "not_found", <<>>)
             ELSE IF NotSelfNorAdmin(rq)
             THEN Answer(rq, 403, "access_denied", <<>>)
             ELSE Enter([rq EXCEPT !.body = StripRole(rq), !.doc = users[id],
                                   !.pc = AfterFind(StripRole(rq), users[id])])
    /\ UNCHANGED <<appts, created, users, patients>>

\* User.findOne({ email: req.body.email, _id: { $ne: id }, isActive: true })
UserPutCheckEmail(rq) ==
    /\ rq.kind = "user_put" /\ rq.pc = "email"
    /\ IF \E j \in DOMAIN users :
            j # rq.id /\ users[j].isActive /\ users[j].email = rq.body.email
       THEN Finish(rq, 400, "email_exists", <<>>)
       ELSE Step(rq, [rq EXCEPT !.pc = AfterEmail(rq.body, rq.doc)])
    /\ UNCHANGED <<appts, created, users, patients>>

\* User.findOne({ username: req.body.username, _id: { $ne: id }, isActive: true })
UserPutCheckUsername(rq) ==
    /\ rq.kind = "user_put" /\ rq.pc = "username"
    /\ IF \E j \in DOMAIN users :
            j # rq.id /\ users[j].isActive /\ users[j].username = rq.body.username
       THEN Finish(rq, 400, "username_taken", <<>>)
       ELSE Step(rq, [rq EXCEPT !.pc = "save"])
    /\ UNCHANGED <<appts, created, users, patients>>

\* The unique indexes of the account collection: email, and username
UserDuplicateKey(id, doc) ==
    \E j \in DOMAIN users :
        j # id /\ (users[j].email = doc.email \/ users[j].username = doc.username)

\* Schema validation run by save(): the role enum
UserSchemaValid(doc) == doc.role \in AllRoles

\* save() of a loaded account writes the paths that differ from what was loaded
UserWritten(id, loaded, doc) ==
    [f \in DOMAIN doc |-> IF doc[f] # loaded[f] THEN doc[f] ELSE users[id][f]]

\* user.save() of a loaded account, and the response
SaveUser(rq, doc, outcome) ==
    LET new == UserWritten(rq.id, rq.doc, doc)
    IN  IF ~UserSchemaValid(doc)
        THEN /\ Finish(rq, 500, "validation_error", <<>>)
             /\ UNCHANGED users
        ELSE IF (new.email # users[rq.id].email \/ new.username # users[rq.id].username)
                /\ UserDuplicateKey(rq.id, new)
        THEN /\ Finish(rq, 500, "duplicate_key", <<>>)
             /\ UNCHANGED users
        ELSE /\ users' = [users EXCEPT ![rq.id] = new]
             /\ Finish(rq, 200, outcome, new)

\* Object.assign(user, req.body); await user.save()
UserPutSave(rq) ==
    /\ rq.kind = "user_put" /\ rq.pc = "save"
    /\ SaveUser(rq, Assign(rq.doc, rq.body), "updated")
    /\ UNCHANGED <<appts, created, patients>>

\* DELETE /api/users/:id up to its lookup
UserDeleteFind(in) ==
    /\ BagCardinality(req) < in.conc
    /\ \E h \in in.headers, id \in in.userIds :
         LET rq == Request("user_delete", h, id, NoBody)
         IN  IF Guard(AdminOnly, rq) # 0
             THEN Answer(rq, Guard(AdminOnly, rq), "denied", <<>>)
             ELSE IF ~FindActiveUser(id)
             THEN Answer(rq, 404, "not_found", <<>>)
             ELSE IF rq.user = id
             THEN Answer(rq, 400, "own_account", <<>>)
             ELSE Enter([rq EXCEPT !.doc = users[id], !.pc = "save"])
    /\ UNCHANGED <<appts, created, users, patients>>

\* user.isActive = false; await user.save()
UserDeleteSave(rq) ==
    /\ rq.kind = "user_delete" /\ rq.pc = "save"
    /\ SaveUser(rq, [rq.doc EXCEPT !.isActive = FALSE], "deleted")
    /\ UNCHANGED <<appts, created, patients>>

----------------------------------------------------------------------------
\* POST /api/auth/register

MinUsername == 3

\* validateUserRegistration: username length and characters, role
ValidateUserRegistration(b) ==
    IF /\ Len(b.username) >= MinUsername
       /\ \A k \in DOMAIN b.username : b.username[k] # " "
       /\ (Has(b, "role") => b.role \in AllRoles)
    THEN 0 ELSE 400

\* The registrations that passed their lookup and have not saved yet
RegistersInFlight ==
    BagCardinality([rq \in {x \in InFlight : x.kind = "register"} |-> req[rq]])

\* The body after the validators' sanitizers
Sanitized(b) == [b EXCEPT !.email = normalizeEmail(b.email)]

\* Validation and User.findOne({ $or: [{ email }, { username }] })
Register(in) ==
    /\ BagCardinality(req) < in.conc
    /\ Len(users) + RegistersInFlight < MaxUsers
    /\ \E b \in in.registers :
         LET rq == Request("register", NoHeader, 0, b)
             body == Sanitized(b)
         IN  IF ValidateUserRegistration(b) # 0
             THEN Answer(rq, 400, "validation", <<>>)
             ELSE IF \E j \in DOMAIN users :
                        users[j].email = body.email \/ users[j].username = body.username
             THEN Answer(rq, 400, "exists", <<>>)
             ELSE Enter([rq EXCEPT !.body = body, !.pc = "save"])
    /\ UNCHANGED <<appts, created, users, patients>>

\* new User({ ..., role: role || 'staff' })
NewUser(b) ==
    Account(b.username, b.email, IF Has(b, "role") THEN b.role ELSE "staff", TRUE)

\* await user.save(), and the response
RegisterSave(rq) ==
    /\ rq.kind = "register" /\ rq.pc = "save"
    /\ LET id == Len(users) + 1
           doc == NewUser(rq.body)
       IN  IF UserDuplicateKey(id, doc)
           THEN /\ Finish(rq, 500, "duplicate_key", <<>>)
                /\ UNCHANGED users
           ELSE /\ users' = Append(users, doc)
                /\ req' = req (-) SetToBag({rq})
                /\ last' = Reply([rq EXCEPT !.id = id], 201, "registered",
                                 doc @@ [id |-> id])
    /\ UNCHANGED <<appts, created, patients>>

----------------------------------------------------------------------------
\* Account requests

Ann == <<"a", "n", "n">>
Bob == <<"b", "o", "b">>
Cy == <<"c", "y">>
Dan == <<"d", "a", "n">>
Eve == <<"e", "v", "e">>

MailA == <<"a", "@", "x">>
MailB == <<"b", "@", "x">>
MailUpperB == <<"B", "@", "x">>
MailC == <<"c", "@", "x">>
MailD == <<"d", "@", "x">>

\* The accounts present when the account requests start
SeedUsers ==
    <<Account(Ann, MailA, "admin", TRUE),
      Account(Bob, MailB, "doctor", TRUE),
      Account(Dan, MailD, "staff", TRUE)>>

\* Credentials: none, an empty bearer, a forged and an expired token, the valid
\* token of every account and of one that does not exist, a token without scheme
Credentials ==
    {NoHeader, Bearer(EmptyToken),
     Bearer([TokenOf(1) EXCEPT !.sig = "bad"]),
     Bearer([TokenOf(1) EXCEPT !.expired = TRUE]),
     Raw(TokenOf(2))}
    \cup {Bearer(TokenOf(u)) : u \in 1..(MaxUsers + 1)}

\* Requests handled one after the other, with every kind of credential
Directory ==
    [conc |-> 1,
     headers |-> Credentials,
     userIds |-> {2, 3},
     userPuts |-> {[email |-> MailA], [username |-> Eve], [role |-> "nurse"]},
     registers |-> {[username |-> Eve, email |-> MailC, role |-> "doctor"]}]

\* Registrations and account updates that interleave
Registering ==
    [conc |-> MaxReq,
     headers |-> {Bearer(TokenOf(2))},
     userIds |-> {2},
     userPuts |-> {[email |-> MailC], [username |-> Eve]},
     registers |-> {[username |-> Eve, email |-> MailC, role |-> "nurse"],
                    [username |-> Eve, email |-> MailA],
                    [username |-> Bob, email |-> MailUpperB],
                    [username |-> Cy, email |-> MailC],
                    [username |-> Ann, email |-> MailC, role |-> "doctor"]}]

InitUsersSpec ==
    /\ appts = <<>>
    /\ created = <<>>
    /\ users = SeedUsers
    /\ patients = <<>>
    /\ req = EmptyBag
    /\ last = NoResp

NextUsers ==
    \/ UserGet(Directory)
    \/ UserPutFind(Directory)
    \/ UserDeleteFind(Directory)
    \/ Register(Directory)
    \/ \E rq \in InFlight :
        \/ UserPutCheckEmail(rq)
        \/ UserPutCheckUsername(rq)
        \/ UserPutSave(rq)
        \/ UserDeleteSave(rq)
        \/ RegisterSave(rq)

SpecUsers == InitUsersSpec /\ [][NextUsers]_vars

NextRegister ==
    \/ Register(Registering)
    \/ UserPutFind(Registering)
    \/ \E rq \in InFlight :
        \/ RegisterSave(rq)
        \/ UserPutCheckEmail(rq)
        \/ UserPutCheckUsername(rq)
        \/ UserPutSave(rq)

SpecRegister == InitUsersSpec /\ [][NextRegister]_vars

----------------------------------------------------------------------------
\* Properties of authentication and of the account routes

\* The routes behind router.use(authenticate)
Protected(kind) == kind \notin {"register", "none"}

\* The four cases in which a credential does not authenticate
NoCredential(h) == h.scheme = "absent" \/ h.token = EmptyToken
FailsVerification(h) == ~NoCredential(h) /\ (h.token.sig # "good" \/ h.token.expired)
NamesNoAccount(h) ==
    ~NoCredential(h) /\ ~FailsVerification(h) /\ h.token.userId \notin DOMAIN users
NamesInactive(h) ==
    /\ ~NoCredential(h) /\ ~FailsVerification(h) /\ ~NamesNoAccount(h)
    /\ ~users[h.token.userId].isActive

BadCredential(h) ==
    NoCredential(h) \/ FailsVerification(h) \/ NamesNoAccount(h) \/ NamesInactive(h)

\* The requests this step takes up and leaves in flight
Entering ==
    IF BagCardinality(req') > BagCardinality(req)
    THEN {rq \in BagToSet(req') : CopiesIn(rq, req') > CopiesIn(rq, req)}
    ELSE {}

\* This step takes up a request and answers it
Answers == req' = req /\ last' # NoResp

\* C12: a request to a protected route that carries no credential, a credential
\* that fails verification, one that names no account or one that names an
\* inactive account is answered 401 in the step that takes it up; no account is
\* attached to it, its handler is not entered and no collection changes.
C12_BadCredentialRefused ==
    [][/\ (Answers /\ Protected(last'.kind) /\ BadCredential(last'.auth))
          => /\ last'.status = 401 /\ ~last'.success
             /\ last'.user = NoUser
             /\ users' = users /\ patients' = patients /\ appts' = appts
       /\ \A rq \in Entering :
            Protected(rq.kind) => (~BadCredential(rq.auth) /\ rq.user # NoUser)]_vars

C12_Witness ==
    /\ last # NoResp
    /\ last.kind = "user_get" /\ last.status = 401
    /\ last.auth = Bearer(TokenOf(2))
    /\ 2 \in DOMAIN users /\ ~users[2].isActive

----------------------------------------------------------------------------
\* The patient collection and /api/patients

MaxPatients == 3      \* documents the patient collection may hold

Medication(name, isActive) == [name |-> name, isActive |-> isActive]

\* A patient document: the fields the routes read, write or return
PatientDoc(firstName, email, isActive) ==
    [firstName |-> firstName, email |-> email, isActive |-> isActive,
     medicalHistory |-> <<firstName, "history">>,
     currentMedications |-> <<Medication("m1", TRUE), Medication("m2", FALSE)>>]

\* Mutant: Patient.findOne({ _id: id }) without the isActive filter
FindPatientAnyState(id) == id \in DOMAIN patients

\* Patient.findOne({ _id: id, isActive: true })
FindPatient(id) == id \in DOMAIN patients /\ patients[id].isActive

\* SelectSeq without a local operator: the elements of seq that satisfy keep
RECURSIVE Filter(_, _)
Filter(seq, keep) ==
    IF seq = <<>> THEN <<>>
    ELSE (IF keep[1] THEN <<Head(seq)>> ELSE <<>>) \o Filter(Tail(seq), Tail(keep))

\* GET /api/patients/:id, /:id/medical-history and /:id/medications
PatientRead(kind, rq) ==
    IF Guard(AllRoles, rq) # 0
    THEN Answer(rq, Guard(AllRoles, rq), "denied", <<>>)
    ELSE IF ~FindPatient(rq.id)
    THEN Answer(rq, 404, "not_found", <<>>)
    ELSE Answer(rq, 200, "ok",
            CASE kind = "patient_get" -> patients[rq.id] @@ [id |-> rq.id]
              [] kind = "patient_history" -> patients[rq.id].medicalHistory
              [] kind = "patient_medications" ->
                    Filter(patients[rq.id].currentMedications,
                           [k \in DOMAIN patients[rq.id].currentMedications |->
                               patients[rq.id].currentMedications[k].isActive]))

PatientGet(in) ==
    /\ \E h \in in.headers, id \in in.patientIds, kind \in in.patientReads :
         PatientRead(kind, Request(kind, h, id, NoBody))
    /\ UNCHANGED <<appts, created, users, patients>>

\* Patient.find({ isActive: true }).sort({ createdAt: -1 }): newest first
RECURSIVE ActivePatientsFrom(_)
ActivePatientsFrom(id) ==
    IF id = 0 THEN <<>>
    ELSE (IF patients[id].isActive THEN <<patients[id] @@ [id |-> id]>> ELSE <<>>)
         \o ActivePatientsFrom(id - 1)

\* GET /api/patients
PatientList(in) ==
    /\ \E h \in in.headers :
         LET rq == Request("patient_list", h, 0, NoBody)
         IN  IF Guard(AllRoles, rq) # 0
             THEN Answer(rq, Guard(AllRoles, rq), "denied", <<>>)
             ELSE Answer(rq, 200, "ok", ActivePatientsFrom(Len(patients)))
    /\ UNCHANGED <<appts, created, users, patients>>

\* validatePatientCreation: the required fields are present
ValidatePatientCreation(b) ==
    IF Has(b, "firstName") /\ Has(b, "email") THEN 0 ELSE 400

\* The body after normalizeEmail()
SanitizedPatient(b) ==
    IF Has(b, "email") THEN [b EXCEPT !.email = normalizeEmail(b.email)] ELSE b

\* Patient.findOne({ email, _id: { $ne: exceptId }, isActive: true })
ActivePatientWithEmail(email, exceptId) ==
    \E j \in DOMAIN patients :
        j # exceptId /\ patients[j].isActive /\ patients[j].email = email

\* Mutant: the unique index of email is missing
PatientDuplicateKeyNoIndex(id, doc) == FALSE

\* email: { unique: true }: the index covers every document, active or not
PatientDuplicateKey(id, doc) ==
    \E j \in DOMAIN patients : j # id /\ patients[j].email = doc.email

PatientPostsInFlight ==
    BagCardinality([rq \in {x \in InFlight : x.kind = "patient_post"} |-> req[rq]])

\* POST /api/patients up to the lookup of the email
PatientPost(in) ==
    /\ BagCardinality(req) < in.conc
    /\ Len(patients) + PatientPostsInFlight < MaxPatients
    /\ \E h \in in.headers, b \in in.patientPosts :
         LET rq == Request("patient_post", h, 0, SanitizedPatient(b))
         IN  IF Guard(WriteRoles, rq) # 0
             THEN Answer(rq, Guard(WriteRoles, rq), "denied", <<>>)
             ELSE IF ValidatePatientCreation(b) # 0
             THEN Answer(rq, 400, "validation", <<>>)
             ELSE IF ActivePatientWithEmail(rq.body.email, 0)
             THEN Answer(rq, 400, "exists", <<>>)
             ELSE Enter([rq EXCEPT !.pc = "save"])
    /\ UNCHANGED <<appts, created, users, patients>>

\* new Patient(req.body); await patient.save()
PatientPostSave(rq) ==
    /\ rq.kind = "patient_post" /\ rq.pc = "save"
    /\ LET id == Len(patients) + 1
           doc == PatientDoc(rq.body.firstName, rq.body.email, TRUE)
       IN  IF PatientDuplicateKey(id, doc)
           THEN /\ Finish(rq, 500, "duplicate_key", <<>>)
                /\ UNCHANGED patients
           ELSE /\ patients' = Append(patients, doc)
                /\ req' = req (-) SetToBag({rq})
                /\ last' = Reply([rq EXCEPT !.id = id], 201, "created",
                                 doc @@ [id |-> id])
    /\ UNCHANGED <<appts, created, users>>

\* save() of a loaded patient writes the paths that differ from what was loaded
PatientWritten(id, loaded, doc) ==
    [f \in DOMAIN doc |-> IF doc[f] # loaded[f] THEN doc[f] ELSE patients[id][f]]

\* patient.save() of a loaded patient, and the response
SavePatient(rq, doc, outcome) ==
    LET new == PatientWritten(rq.id, rq.doc, doc)
    IN  IF new.email # patients[rq.id].email /\ PatientDuplicateKey(rq.id, new)
        THEN /\ Finish(rq, 500, "duplicate_key", <<>>)
             /\ UNCHANGED patients
        ELSE /\ patients' = [patients EXCEPT ![rq.id] = new]
             /\ Finish(rq, 200, outcome, new)

\* PUT /api/patients/:id up to its findOne
PatientPutFind(in) ==
    /\ BagCardinality(req) < in.conc
    /\ \E h \in in.headers, id \in in.patientIds, b \in in.patientPuts :
         LET rq == Request("patient_put", h, id, SanitizedPatient(b))
         IN  IF Guard(WriteRoles, rq) # 0
             THEN Answer(rq, Guard(WriteRoles, rq), "denied", <<>>)
             ELSE IF ValidatePatientCreation(b) # 0
             THEN Answer(rq, 400, "validation", <<>>)
             ELSE IF ~FindPatient(id)
             THEN Answer(rq, 404, "not_found", <<>>)
             ELSE Enter([rq EXCEPT !.doc = patients[id],
                                   !.pc = IF rq.body.email # patients[id].email
                                          THEN "email" ELSE "save"])
    /\ UNCHANGED <<appts, created, users, patients>>

\* The lookup of another active patient with the new email
PatientPutCheckEmail(rq) ==
    /\ rq.kind = "patient_put" /\ rq.pc = "email"
    /\ IF ActivePatientWithEmail(rq.body.email, rq.id)
       THEN Finish(rq, 400, "exists", <<>>)
       ELSE Step(rq, [rq EXCEPT !.pc = "save"])
    /\ UNCHANGED <<appts, created, users, patients>>

\* Object.assign(patient, req.body); await patient.save()
PatientPutSave(rq) ==
    /\ rq.kind = "patient_put" /\ rq.pc = "save"
    /\ SavePatient(rq, Assign(rq.doc, rq.body), "updated")
    /\ UNCHANGED <<appts, created, users>>

\* DELETE /api/patients/:id up to its findOne
PatientDeleteFind(in) ==
    /\ BagCardinality(req) < in.conc
    /\ \E h \in in.headers, id \in in.patientIds :
         LET rq == Request("patient_delete", h, id, NoBody)
         IN  IF Guard(AdminOnly, rq) # 0
             THEN Answer(rq, Guard(AdminOnly, rq), "denied", <<>>)
             ELSE IF ~FindPatient(id)
             THEN Answer(rq, 404, "not_found", <<>>)
             ELSE Enter([rq EXCEPT !.doc = patients[id], !.pc = "save"])
    /\ UNCHANGED <<appts, created, users, patients>>

\* patient.isActive = false; await patient.save()
PatientDeleteSave(rq) ==
    /\ rq.kind = "patient_delete" /\ rq.pc = "save"
    /\ SavePatient(rq, [rq.doc EXCEPT !.isActive = FALSE], "deleted")
    /\ UNCHANGED <<appts, created, users>>

----------------------------------------------------------------------------
\* Requests of accounts of every role

\* One active account of each role
RoleUsers ==
    <<Account(Bob, MailB, "doctor", TRUE),
      Account(Ann, MailA, "admin", TRUE),
      Account(Dan, MailD, "staff", TRUE),
      Account(Eve, MailC, "nurse", TRUE)>>

SeedPatients == <<PatientDoc("pat", MailA, TRUE)>>

Staffing ==
    [conc |-> 1,
     clients |-> DOMAIN RoleUsers,
     headers |-> {Bearer(TokenOf(u)) : u \in DOMAIN RoleUsers},
     posts |-> {[patient |-> 1, doctor |-> 1, date |-> 1, time |-> T0900, duration |-> 30]},
     puts |-> {[status |-> "confirmed"]},
     userIds |-> {4},
     patientIds |-> {1},
     patientReads |-> {"patient_get"},
     patientPosts |-> {[firstName |-> "new", email |-> MailB]},
     patientPuts |-> {[firstName |-> "pat", email |-> MailC],
                      [firstName |-> "renamed", email |-> MailA]}]

InitRoles ==
    /\ appts = <<>>
    /\ created = <<>>
    /\ users = RoleUsers
    /\ patients = SeedPatients
    /\ req = EmptyBag
    /\ last = NoResp

NextRoles ==
    \/ PostCheck(Staffing)
    \/ PutFind(Staffing)
    \/ DeleteFind(Staffing)
    \/ PatientList(Staffing)
    \/ PatientGet(Staffing)
    \/ PatientPost(Staffing)
    \/ PatientPutFind(Staffing)
    \/ PatientDeleteFind(Staffing)
    \/ UserDeleteFind(Staffing)
    \/ \E rq \in InFlight :
        \/ PostSave(rq)
        \/ PutCheckConflict(rq)
        \/ PutSave(rq)
        \/ DeleteSave(rq)
        \/ PatientPostSave(rq)
        \/ PatientPutCheckEmail(rq)
        \/ PatientPutSave(rq)
        \/ PatientDeleteSave(rq)
        \/ UserDeleteSave(rq)

SpecRoles == InitRoles /\ [][NextRoles]_vars

\* The roles the role matrix permits on a route
Permitted(kind) ==
    IF kind \in {"post", "put", "delete", "patient_post", "patient_put"}
    THEN {"admin", "doctor", "nurse"}
    ELSE IF kind \in {"patient_delete", "user_delete"}
    THEN {"admin"}
    ELSE {"admin", "doctor", "nurse", "staff"}

\* Account u is authenticated: it exists and is active
Authenticated(u) == u \in DOMAIN users /\ users[u].isActive

----------------------------------------------------------------------------
\* C14: a GET or PUT /api/users/:id of an authenticated account that is not an
\* admin, for the id of another account that exists and is active, is
\* answered 403 in the step that takes it up and changes no account; such a
\* request never reaches its save, and an account is only changed by a request
\* of an admin or of the account itself.
C14_OwnProfileOnly ==
    [][/\ (/\ Answers /\ last'.kind \in {"user_get", "user_put"}
           /\ Authenticated(last'.user) /\ users[last'.user].role # "admin"
           /\ last'.id # last'.user /\ FindActiveUser(last'.id))
          => (last'.status = 403 /\ ~last'.success /\ users' = users)
       /\ \A rq \in Entering :
            rq.kind = "user_put"
            => (users[rq.user].role = "admin" \/ rq.id = rq.user)
       /\ \A rq \in BagToSet(req) :
            (rq.kind = "user_put" /\ Completes(rq) /\ users' # users)
            => (users[rq.user].role = "admin" \/ rq.id = rq.user)]_vars

C14_Witness ==
    /\ last # NoResp
    /\ last.kind = "user_put" /\ last.status = 403
    /\ last.user = 3 /\ last.id = 2
    /\ users[2].isActive /\ users[3].isActive
    /\ users[3].username = Eve

----------------------------------------------------------------------------
\* Patient requests that interleave

Admitting ==
    [conc |-> MaxReq,
     headers |-> {Bearer(TokenOf(2)), Bearer(TokenOf(3))},
     patientIds |-> {1},
     patientReads |-> {"patient_get", "patient_history", "patient_medications"},
     patientPosts |-> {[firstName |-> "new", email |-> MailUpperB],
                       [firstName |-> "new", email |-> MailA]},
     patientPuts |-> {[firstName |-> "pat", email |-> MailB], [firstName |-> "pat"]}]

NextPatients ==
    \/ PatientList(Admitting)
    \/ PatientGet(Admitting)
    \/ PatientPost(Admitting)
    \/ PatientPutFind(Admitting)
    \/ PatientDeleteFind(Admitting)
    \/ \E rq \in InFlight :
        \/ PatientPostSave(rq)
        \/ PatientPutCheckEmail(rq)
        \/ PatientPutSave(rq)
        \/ PatientDeleteSave(rq)

SpecPatients == InitRoles /\ [][NextPatients]_vars

\* The routes that name a patient by id
ByPatientId ==
    {"patient_get", "patient_history", "patient_medications", "patient_put",
     "patient_delete"}

\* Patient p was soft-deleted: every patient is created active
SoftDeleted(p) == p \in DOMAIN patients /\ ~patients[p].isActive

\* A soft-deleted patient stays stored and inactive, and a successful DELETE
\* leaves its patient inactive
StaysDeleted ==
    /\ \A p \in DOMAIN patients :
         SoftDeleted(p) => (p \in DOMAIN patients' /\ ~patients'[p].isActive)
    /\ \A rq \in BagToSet(req) :
         (rq.kind = "patient_delete" /\ Completes(rq) /\ last'.success)
         => ~patients'[rq.id].isActive

\* C15 as stated: after a successful DELETE /api/patients/:id the patient stays
\* stored with isActive false, and every request by id for it that is taken
\* up later (GET, medical-history, medications, PUT, DELETE) is answered 404.
C15_DeletedPatientAlways404 ==
    [][/\ StaysDeleted
       /\ (Answers /\ last'.kind \in ByPatientId /\ SoftDeleted(last'.id))
          => last'.status = 404
       /\ \A rq \in Entering : rq.kind \in ByPatientId => ~SoftDeleted(rq.id)]_vars

\* C15 amended: after a successful DELETE /api/patients/:id the patient stays
\* stored with isActive false, and every request by id for it that is taken
\* up later is refused in that step and writes nothing: with 404 when the
\* account is authenticated, its role is permitted on the route and the body
\* is valid, and with the 401, 403 or 400 of those checks otherwise.
C15_DeletedPatientRefused ==
    [][/\ StaysDeleted
       /\ (Answers /\ last'.kind \in ByPatientId /\ SoftDeleted(last'.id))
          => /\ ~last'.success /\ patients' = patients
             /\ (/\ Authenticated(last'.user)
                 /\ users[last'.user].role \in Permitted(last'.kind)
                 /\ (last'.kind = "patient_put" => ValidatePatientCreation(last'.body) = 0))
                => last'.status = 404
       /\ \A rq \in Entering : rq.kind \in ByPatientId => ~SoftDeleted(rq.id)]_vars

C15_Witness ==
    /\ last # NoResp
    /\ last.kind = "patient_put" /\ last.status = 404
    /\ SoftDeleted(1)
    /\ Len(patients) = 2

----------------------------------------------------------------------------
\* C17: in every reachable state of interleaved patient creates, updates and
\* soft-deletes, no two patients with isActive = true have the same email.
C17_ActiveEmailsDistinct ==
    \A i, j \in DOMAIN patients :
        (i # j /\ patients[i].isActive /\ patients[j].isActive)
        => patients[i].email # patients[j].email

\* A create that lost the race for an email another request had also found free
C17_Witness ==
    /\ last # NoResp
    /\ last.kind = "patient_post" /\ last.outcome = "duplicate_key"
    /\ \E i \in DOMAIN patients :
         patients[i].isActive /\ patients[i].email = last.body.email


----------------------------------------------------------------------------
\* Dates of the read routes.  An instant is the number of whole days since
\* 1970-01-01T00:00Z: every Date of this part is a midnight, so a difference of
\* n days is n * 86400000 ms in the code.

IsLeapYear(y) == (y % 4 = 0 /\ y % 100 # 0) \/ y % 400 = 0

\* The leap years before year y
LeapsBefore(y) == ((y - 1) \div 4) - ((y - 1) \div 100) + ((y - 1) \div 400)

DaysInMonth(y, m) ==
    IF m = 2 THEN (IF IsLeapYear(y) THEN 29 ELSE 28)
    ELSE IF m \in {4, 6, 9, 11} THEN 30 ELSE 31

RECURSIVE DaysBeforeMonth(_, _)
DaysBeforeMonth(y, m) ==
    IF m = 1 THEN 0 ELSE DaysBeforeMonth(y, m - 1) + DaysInMonth(y, m - 1)

\* new Date(Date.UTC(y, m - 1, d)) as a number of days
DateUTC(y, m, d) ==
    365 * (y - 1970) + (LeapsBefore(y) - LeapsBefore(1970)) + DaysBeforeMonth(y, m) + (d - 1)

\* $floor($divide($subtract(now, dateOfBirth), 365.25 * 24 * 60 * 60 * 1000)):
\* days * 86400000 / 31557600000 = 4 * days / 1461
Age(now, dateOfBirth) == (4 * (now - dateOfBirth)) \div 1461

\* The $switch of the age pipeline
AgeBracket(age) ==
    IF age < 18 THEN "0-17"
    ELSE IF age < 35 THEN "18-34"
    ELSE IF age < 50 THEN "35-49"
    ELSE IF age < 65 THEN "50-64"
    ELSE "65+"

\* The ids of the patients the age pipeline puts into bracket b
InBracket(now, b) ==
    {i \in DOMAIN patients :
        patients[i].isActive /\ AgeBracket(Age(now, patients[i].dateOfBirth)) = b}

\* $match { isActive: true }, $addFields age, $group by bracket with $sum 1:
\* one entry for every bracket that holds a patient
AgeDistribution(now) ==
    [b \in {c \in {"0-17", "18-34", "35-49", "50-64", "65+"} : InBracket(now, c) # {}}
        |-> Cardinality(InBracket(now, b))]

----------------------------------------------------------------------------
\* The read routes of appointments, accounts and the dashboard

\* select(fields) of a document
Select(doc, fields) == [f \in fields \cap DOMAIN doc |-> doc[f]]

\* populate(path, fields): the referenced document whatever its isActive is, or
\* null when the collection holds no document of that id
Populate(collection, id, fields) ==
    IF id \in DOMAIN collection
    THEN Select(collection[id], fields) @@ [id |-> id]
    ELSE NoBody

\* appointmentSchema.virtual('endTime')
EndTime(doc) ==
    LET startMinutes == parseInt(split(doc.time)[1]) * 60 + parseInt(split(doc.time)[2])
        endMinutes == startMinutes + doc.duration
        endHours == endMinutes \div 60
        endMins == endMinutes % 60
    IN  padStart2(toString(endHours)) \o <<":">> \o padStart2(toString(endMins))

\* The appointment of GET /api/appointments/:id and of the list, populated and
\* serialized with its virtuals
PopulatedAppointment(id) ==
    [appts[id] EXCEPT
        !.patient = Populate(patients, @, {"firstName", "email", "dateOfBirth"}),
        !.doctor = Populate(users, @, {"firstName", "email"}),
        !.createdBy = Populate(users, @, {"firstName"})]
    @@ [id |-> id, endTime |-> EndTime(appts[id])]

\* The order of two strings of digits and colons
CharCode(c) == IF c = ":" THEN 10 ELSE DigitVal(c)

RECURSIVE StringLess(_, _)
StringLess(s, t) ==
    IF t = <<>> THEN FALSE
    ELSE IF s = <<>> THEN TRUE
    ELSE IF CharCode(Head(s)) # CharCode(Head(t)) THEN CharCode(Head(s)) < CharCode(Head(t))
    ELSE StringLess(Tail(s), Tail(t))

\* sort({ date: 1, time: 1 }): document i comes before document j
SortsBefore(i, j) ==
    \/ appts[i].date < appts[j].date
    \/ appts[i].date = appts[j].date /\ StringLess(appts[i].time, appts[j].time)
    \/ appts[i].date = appts[j].date /\ appts[i].time = appts[j].time /\ i < j

\* The ids of set ids in the order of sort({ date: 1, time: 1 })
RECURSIVE SortedIds(_)
SortedIds(ids) ==
    IF ids = {} THEN <<>>
    ELSE LET first == CHOOSE i \in ids : \A j \in ids \ {i} : SortsBefore(i, j)
         IN  <<first>> \o SortedIds(ids \ {first})

\* GET /api/appointments/:id
AppointmentGet(in) ==
    /\ \E h \in in.headers, id \in in.apptIds :
         LET rq == Request("appt_get", h, id, NoBody)
         IN  IF Guard(AllRoles, rq) # 0
             THEN Answer(rq, Guard(AllRoles, rq), "denied", <<>>)
             ELSE IF id \notin DOMAIN appts
             THEN Answer(rq, 404, "not_found", <<>>)
             ELSE Answer(rq, 200, "ok", PopulatedAppointment(id))
    /\ UNCHANGED <<appts, created, users, patients>>

\* GET /api/appointments without query parameters: the first page
AppointmentList(in) ==
    /\ \E h \in in.headers :
         LET rq == Request("appt_list", h, 0, NoBody)
             ids == SortedIds(DOMAIN appts)
         IN  IF Guard(AllRoles, rq) # 0
             THEN Answer(rq, Guard(AllRoles, rq), "denied", <<>>)
             ELSE Answer(rq, 200, "ok",
                         [k \in DOMAIN ids |-> PopulatedAppointment(ids[k])])
    /\ UNCHANGED <<appts, created, users, patients>>

\* User.find({ role: 'doctor', isActive: true }).select('firstName lastName email')
RECURSIVE ActiveDoctorsUpTo(_)
ActiveDoctorsUpTo(id) ==
    IF id = 0 THEN <<>>
    ELSE ActiveDoctorsUpTo(id - 1)
         \o (IF users[id].role = "doctor" /\ users[id].isActive
             THEN <<Select(users[id], {"firstName", "email"}) @@ [id |-> id]>>
             ELSE <<>>)

\* GET /api/users/doctors
DoctorsList(in) ==
    /\ \E h \in in.headers :
         LET rq == Request("doctors_list", h, 0, NoBody)
         IN  IF Guard(AllRoles, rq) # 0
             THEN Answer(rq, Guard(AllRoles, rq), "denied", <<>>)
             ELSE Answer(rq, 200, "ok", ActiveDoctorsUpTo(Len(users)))
    /\ UNCHANGED <<appts, created, users, patients>>

\* Appointment.find({ date: { $gte: now }, status: { $in: ['scheduled', 'confirmed'] } })
Upcoming(now) ==
    {i \in DOMAIN appts : appts[i].date >= now /\ appts[i].status \in {"scheduled", "confirmed"}}

\* `${apt.patient.firstName} ...` of a populated path that is null throws
NamesResolve(ids) ==
    \A i \in ids : appts[i].patient \in DOMAIN patients /\ appts[i].doctor \in DOMAIN users

\* One entry of upcomingAppointments
UpcomingEntry(id) ==
    [id |-> id,
     patientName |-> Populate(patients, appts[id].patient, {"firstName"}).firstName,
     doctorName |-> Populate(users, appts[id].doctor, {"firstName"}).firstName,
     date |-> appts[id].date, time |-> appts[id].time, status |-> appts[id].status]

\* Patient.find({ isActive: true }).sort({ createdAt: -1 }).select('firstName lastName email createdAt')
RECURSIVE RecentPatientsFrom(_)
RecentPatientsFrom(id) ==
    IF id = 0 THEN <<>>
    ELSE (IF patients[id].isActive
          THEN <<[id |-> id, name |-> patients[id].firstName, email |-> patients[id].email]>>
          ELSE <<>>)
         \o RecentPatientsFrom(id - 1)

\* The dashboardData of GET /api/dashboard/stats at instant now
DashboardData(now) ==
    LET ids == SortedIds(Upcoming(now))
    IN  [overview |->
            [totalPatients |-> Cardinality({i \in DOMAIN patients : patients[i].isActive}),
             totalDoctors |-> Cardinality({i \in DOMAIN users :
                                  users[i].role = "doctor" /\ users[i].isActive}),
             todayAppointments |-> Cardinality({i \in DOMAIN appts : appts[i].date = now}),
             pendingAppointments |-> Cardinality({i \in DOMAIN appts :
                                  appts[i].status \in {"scheduled", "confirmed"}})],
         upcomingAppointments |-> [k \in DOMAIN ids |-> UpcomingEntry(ids[k])],
         recentPatients |-> RecentPatientsFrom(Len(patients)),
         demographics |-> [age |-> AgeDistribution(now)]]

\* GET /api/dashboard/stats; the body of the request records the instant that
\* new Date() gives the handler
DashboardStats(in) ==
    /\ \E h \in in.headers, now \in in.nows :
         LET rq == Request("stats", h, 0, [now |-> now])
         IN  IF Guard(AllRoles, rq) # 0
             THEN Answer(rq, Guard(AllRoles, rq), "denied", <<>>)
             ELSE IF ~NamesResolve(Upcoming(now))
             THEN Answer(rq, 500, "error", <<>>)
             ELSE Answer(rq, 200, "ok", DashboardData(now))
    /\ UNCHANGED <<appts, created, users, patients>>

\* One appointment entry of the activity feed
ActivityEntry(id) ==
    [id |-> id, type |-> "appointment",
     patientName |-> Populate(patients, appts[id].patient, {"firstName"}).firstName,
     doctorName |-> Populate(users, appts[id].doctor, {"firstName"}).firstName,
     user |-> IF appts[id].createdBy \in DOMAIN users
              THEN users[appts[id].createdBy].firstName ELSE "System"]

\* Appointment.find().sort({ createdAt: -1 }): newest first
RECURSIVE ActivitiesFrom(_)
ActivitiesFrom(id) ==
    IF id = 0 THEN <<>> ELSE <<ActivityEntry(id)>> \o ActivitiesFrom(id - 1)

RECURSIVE PatientActivitiesFrom(_)
PatientActivitiesFrom(id) ==
    IF id = 0 THEN <<>>
    ELSE (IF patients[id].isActive
          THEN <<[id |-> id, type |-> "patient", patientName |-> patients[id].firstName]>>
          ELSE <<>>)
         \o PatientActivitiesFrom(id - 1)

\* GET /api/dashboard/recent-activity with the default limit
RecentActivity(in) ==
    /\ \E h \in in.headers :
         LET rq == Request("activity", h, 0, NoBody)
         IN  IF Guard(AllRoles, rq) # 0
             THEN Answer(rq, Guard(AllRoles, rq), "denied", <<>>)
             ELSE IF ~NamesResolve(DOMAIN appts)
             THEN Answer(rq, 500, "error", <<>>)
             ELSE Answer(rq, 200, "ok",
                         ActivitiesFrom(Len(appts)) \o PatientActivitiesFrom(Len(patients)))
    /\ UNCHANGED <<appts, created, users, patients>>

----------------------------------------------------------------------------
\* Reads of collections that hold soft-deleted documents

\* Two doctors, an administrator and a staff account, with the names responses show
ReadUsers ==
    <<Account(Bob, MailB, "doctor", TRUE) @@ [firstName |-> "bob"],
      Account(Ann, MailA, "admin", TRUE) @@ [firstName |-> "ann"],
      Account(Dan, MailD, "staff", TRUE) @@ [firstName |-> "dan"],
      Account(Eve, MailC, "doctor", TRUE) @@ [firstName |-> "eve"]>>

ReadBirthDates == {DateUTC(2000, 1, 1), DateUTC(2001, 3, 1)}

ReadPatients ==
    {<<PatientDoc("pat", MailA, TRUE) @@ [dateOfBirth |-> d1],
       PatientDoc("quin", MailB, TRUE) @@ [dateOfBirth |-> d2]>> :
        d1 \in ReadBirthDates, d2 \in ReadBirthDates}

\* One appointment of each patient, each with its own doctor
ReadAppts ==
    <<Stored(1, DateUTC(2019, 3, 1), T0900, 30, "scheduled"),
      [Stored(4, DateUTC(2019, 3, 1), T0930, 30, "confirmed") EXCEPT !.patient = 2]>>

Reading ==
    [conc |-> 1,
     headers |-> {NoHeader, Bearer(TokenOf(2)), Bearer(TokenOf(3))},
     apptIds |-> {1, 2, 3},
     userIds |-> {3, 4},
     patientIds |-> {1, 2},
     patientReads |-> {"patient_get", "patient_history", "patient_medications"},
     nows |-> {DateUTC(2018, 1, 1), DateUTC(2019, 3, 1)}]

InitReads ==
    /\ appts = ReadAppts
    /\ created = appts
    /\ users = ReadUsers
    /\ patients \in ReadPatients
    /\ req = EmptyBag
    /\ last = NoResp

NextReads ==
    \/ AppointmentGet(Reading)
    \/ AppointmentList(Reading)
    \/ DoctorsList(Reading)
    \/ DashboardStats(Reading)
    \/ RecentActivity(Reading)
    \/ PatientGet(Reading)
    \/ PatientList(Reading)
    \/ UserGet(Reading)
    \/ PatientDeleteFind(Reading)
    \/ UserDeleteFind(Reading)
    \/ \E rq \in InFlight :
        \/ PatientDeleteSave(rq)
        \/ UserDeleteSave(rq)

SpecReads == InitReads /\ [][NextReads]_vars

\* The last step answered a read of kind k with 200 to an account that is not
\* an administrator
ReadBy(k) ==
    /\ last # NoResp /\ last.kind = k /\ last.status = 200
    /\ users[last.user].role # "admin"

PatientShown(id) == id \in DOMAIN patients /\ patients[id].isActive
AccountShown(id) == id \in DOMAIN users /\ users[id].isActive

\* A populated appointment shows no patient or account that is soft-deleted
ShowsOnlyActive(a) ==
    /\ a.patient # NoBody => PatientShown(a.patient.id)
    /\ a.doctor # NoBody => AccountShown(a.doctor.id)
    /\ a.createdBy # NoBody => AccountShown(a.createdBy.id)

\* C16: every read answered to an account that is not an administrator treats a
\* soft-deleted patient or account as one that does not exist: the patient
\* routes and the account route answer 200 only for active documents, the lists
\* hold active documents only, and the populated patient and doctor of an
\* appointment, the upcoming appointments of the dashboard and the activity
\* feed show no field of a soft-deleted patient or account.
C16_SoftDeletedHidden ==
    /\ \A k \in {"patient_get", "patient_history", "patient_medications"} :
         ReadBy(k) => PatientShown(last.id)
    /\ ReadBy("patient_list") => \A k \in DOMAIN last.data : PatientShown(last.data[k].id)
    /\ ReadBy("user_get") => AccountShown(last.id)
    /\ ReadBy("doctors_list") => \A k \in DOMAIN last.data : AccountShown(last.data[k].id)
    /\ ReadBy("appt_get") => ShowsOnlyActive(last.data)
    /\ ReadBy("appt_list") => \A k \in DOMAIN last.data : ShowsOnlyActive(last.data[k])
    /\ ReadBy("stats") =>
         /\ \A k \in DOMAIN last.data.upcomingAppointments :
              LET a == appts[last.data.upcomingAppointments[k].id]
              IN  PatientShown(a.patient) /\ AccountShown(a.doctor)
         /\ \A k \in DOMAIN last.data.recentPatients :
              PatientShown(last.data.recentPatients[k].id)
    /\ ReadBy("activity") =>
         \A k \in DOMAIN last.data :
            IF last.data[k].type = "patient" THEN PatientShown(last.data[k].id)
            ELSE PatientShown(appts[last.data[k].id].patient)
                 /\ AccountShown(appts[last.data[k].id].doctor)

\* The read routes other than the populated ones hide soft-deleted documents
C16_DirectReadsHidden ==
    /\ \A k \in {"patient_get", "patient_history", "patient_medications"} :
         ReadBy(k) => PatientShown(last.id)
    /\ ReadBy("patient_list") => \A k \in DOMAIN last.data : PatientShown(last.data[k].id)
    /\ ReadBy("user_get") => AccountShown(last.id)
    /\ ReadBy("doctors_list") => \A k \in DOMAIN last.data : AccountShown(last.data[k].id)
    /\ ReadBy("stats") =>
         \A k \in DOMAIN last.data.recentPatients :
            PatientShown(last.data.recentPatients[k].id)

----------------------------------------------------------------------------
\* Properties of registration

\* Some account has the email or the username of body b
Taken(b) ==
    \E j \in DOMAIN users :
        users[j].email = Sanitized(b).email \/ users[j].username = b.username

\* This step answers a registration
AnswersRegister == last' # NoResp /\ last'.kind = "register"

\* C18: a registration answered while an account with its email or its username
\* exists is answered 400 and creates no account; a valid registration answered
\* while no such account exists creates exactly one account, with the requested
\* role, or staff when the body names none; and no other step creates an account.
C18_RegisterContract ==
    [][/\ (AnswersRegister /\ Taken(last'.body))
          => (last'.status = 400 /\ users' = users)
       /\ (AnswersRegister /\ ~Taken(last'.body) /\ ValidateUserRegistration(last'.body) = 0)
          => /\ last'.status = 201
             /\ users' = Append(users, NewUser(Sanitized(last'.body)))
             /\ users'[Len(users')].role =
                   (IF Has(last'.body, "role") THEN last'.body.role ELSE "staff")
       /\ ~AnswersRegister => Len(users') = Len(users)]_vars

\* A registration whose lookup finds an account with its email or username is
\* answered 400 in that step, and a registration creates at most one account
C18_LookupRejects ==
    [][/\ (Answers /\ last'.kind = "register" /\ Taken(last'.body))
          => (last'.status = 400 /\ users' = users)
       /\ (AnswersRegister /\ last'.status = 201)
          => users' = Append(users, NewUser(Sanitized(last'.body)))
       /\ (AnswersRegister /\ last'.status # 201) => users' = users
       /\ ~AnswersRegister => Len(users') = Len(users)]_vars

----------------------------------------------------------------------------
\* The age distribution of the dashboard over birth dates and current dates

\* Calendar dates: the first and last day of a year and the day after a
\* possible leap day, in years at every distance from a leap year
AgeCalendar ==
    {[y |-> y, m |-> md[1], d |-> md[2]] :
        y \in 2000..2003, md \in {<<1, 1>>, <<3, 1>>, <<12, 31>>}}

\* An active patient born on one of the dates, and a soft-deleted patient
AgePatients ==
    {<<PatientDoc("pat", MailA, TRUE) @@ [dateOfBirth |-> DateUTC(c.y, c.m, c.d)],
       PatientDoc("quin", MailB, FALSE) @@ [dateOfBirth |-> DateUTC(1950, 6, 15)]>> :
        c \in AgeCalendar}

\* The eighteenth anniversaries of the dates, and the days before them
Ageing ==
    [headers |-> {Bearer(TokenOf(3))},
     nows |-> {DateUTC(c.y + 18, c.m, c.d) - k : c \in AgeCalendar, k \in {0, 1}}]

InitAge ==
    /\ appts = <<>>
    /\ created = <<>>
    /\ users = ReadUsers
    /\ patients \in AgePatients
    /\ req = EmptyBag
    /\ last = NoResp

NextAge == DashboardStats(Ageing)

SpecAge == InitAge /\ [][NextAge]_vars

\* The last step answered the dashboard statistics
StatsAnswered == last # NoResp /\ last.kind = "stats" /\ last.status = 200

\* Birth date dateOfBirth is exactly 18 calendar years before instant now
EighteenYearsBefore(dateOfBirth, now) ==
    \E c \in AgeCalendar :
        dateOfBirth = DateUTC(c.y, c.m, c.d) /\ now = DateUTC(c.y + 18, c.m, c.d)

\* The active patients that are exactly 18 at instant now
JustAdult(now) ==
    {i \in DOMAIN patients :
        patients[i].isActive /\ EighteenYearsBefore(patients[i].dateOfBirth, now)}

\* The count a distribution gives bracket b
CountIn(age, b) == IF b \in DOMAIN age THEN age[b] ELSE 0

Brackets == {"0-17", "18-34", "35-49", "50-64", "65+"}

RECURSIVE SumCounts(_, _)
SumCounts(age, bs) ==
    IF bs = {} THEN 0
    ELSE LET b == CHOOSE x \in bs : TRUE
         IN  CountIn(age, b) + SumCounts(age, bs \ {b})

ActivePatients == {i \in DOMAIN patients : patients[i].isActive}

\* C19: in the age distribution of the dashboard, every active patient born
\* exactly 18 calendar years before the current instant is counted in bracket
\* 18-34 and not in 0-17, and the counts of the five brackets add up to the
\* number of active patients.
C19_EighteenIsAdult ==
    StatsAnswered =>
        LET age == last.data.demographics.age
            now == last.body.now
        IN  /\ CountIn(age, "18-34") >= Cardinality(JustAdult(now))
            /\ CountIn(age, "0-17") <= Cardinality(ActivePatients \ JustAdult(now))
            /\ DOMAIN age \subseteq Brackets
            /\ SumCounts(age, Brackets) = Cardinality(ActivePatients)

\* The five brackets partition the active patients
C19_OneBracketEach ==
    StatsAnswered =>
        LET age == last.data.demographics.age
        IN  /\ DOMAIN age \subseteq Brackets
            /\ SumCounts(age, Brackets) = Cardinality(ActivePatients)

----------------------------------------------------------------------------
\* Properties of the conflict check

\* The (doctor, date, time) the conflict check of update rq looks up
CheckedKey(rq) ==
    <<IF Has(rq.body, "doctor") THEN rq.body.doctor ELSE rq.doc.doctor,
      IF Has(rq.body, "date") THEN rq.body.date ELSE rq.doc.date,
      IF Has(rq.body, "time") THEN rq.body.time ELSE rq.doc.time>>

\* An active document other than document id holds key k
ActiveElsewhere(k, id) ==
    \E j \in DOMAIN appts : j # id /\ IndexKey(appts[j]) = k /\ Active(appts[j])

\* This step runs the conflict check of update rq
ChecksUpdate(rq) ==
    /\ rq.kind = "put" /\ rq.pc = "conflict"
    /\ CopiesIn(rq, req') < CopiesIn(rq, req)

\* An active document of the doctor and date of key k that starts at another
\* time and whose interval overlaps the interval of duration d starting at k's time
OverlapsAt(k, d) ==
    \E j \in DOMAIN appts :
        /\ Active(appts[j])
        /\ appts[j].doctor = k[1] /\ appts[j].date = k[2] /\ appts[j].time # k[3]
        /\ StartMinutes(k[3]) < EndMinutes(appts[j])
        /\ StartMinutes(appts[j].time) < StartMinutes(k[3]) + d

\* C20: the conflict check of create and update reports a conflict only when
\* an active appointment (for an update, another one) holds exactly the same
\* (doctor, date, time): a create or an update whose start time differs from
\* the start time of every active appointment of that doctor and date passes
\* the check, also when its interval overlaps one of them.
C20_ExactCollisionOnly ==
    [][/\ (RefusesPost /\ ~ActiveAt(KeyOf(last'.body)))
          => last'.outcome # "conflict"
       /\ \A rq \in BagToSet(req) :
            ChecksUpdate(rq) =>
                IF ActiveElsewhere(CheckedKey(rq), rq.id)
                THEN last' # NoResp /\ last'.outcome = "conflict"
                ELSE /\ last' = NoResp
                     /\ [rq EXCEPT !.pc = "save"] \in BagToSet(req')]_vars

\* A create at 09:30 was stored while an active appointment of the same doctor
\* and date that starts at 09:00 and lasts 60 minutes exists
C20_Witness ==
    /\ last # NoResp
    /\ last.kind = "post" /\ last.success
    /\ last.body.time = T0930
    /\ OverlapsAt(KeyOf(last.body), last.body.duration)
    /\ \E i \in DOMAIN appts :
         IndexKey(appts[i]) = KeyOf(last.body) /\ Active(appts[i])

----------------------------------------------------------------------------
\* Properties of updates in place

\* Update rq keeps the doctor, date and time its appointment had when it was loaded
KeepsKey(rq) == CheckedKey(rq) = IndexKey(rq.doc)

\* This step answers update rq
AnswersUpdate(rq) == rq.kind = "put" /\ Completes(rq)

\* C21: an update that keeps the doctor, date and time of its appointment is
\* never refused for a conflict with that appointment itself: when its body
\* names none of the three it is not refused for conflict at all, and when it
\* names them it is refused for conflict exactly when another active
\* appointment holds that (doctor, date, time).
C21_NoSelfConflict ==
    [][\A rq \in BagToSet(req) :
          (AnswersUpdate(rq) /\ KeepsKey(rq))
          => /\ (last'.outcome = "conflict")
                    => (rq.pc = "conflict" /\ ActiveElsewhere(IndexKey(rq.doc), rq.id))
             /\ (rq.pc = "save" /\ appts[rq.id] = rq.doc /\ SchemaValid(rq.doc))
                    => last'.success]_vars

\* An update naming the time its active appointment already has was saved
C21_Witness ==
    /\ last # NoResp
    /\ last.kind = "put" /\ last.success
    /\ Has(last.body, "time")
    /\ created[last.id].time = last.body.time
    /\ appts[last.id].time = last.body.time
    /\ Active(appts[last.id])

----------------------------------------------------------------------------
\* Creates and updates whose bodies name a doctor, an author or a time written
\* in another way, sent by a doctor and an administrator one after the other

Editing ==
    [conc |-> 1,
     clients |-> {1, 2},
     posts |-> {[patient |-> 1, doctor |-> 1, date |-> 1, time |-> T0900, duration |-> 30],
                [patient |-> 1, doctor |-> 3, date |-> 1, time |-> T0900, duration |-> 30],
                [patient |-> 1, doctor |-> 1, date |-> 1, time |-> T900, duration |-> 30,
                 createdBy |-> 3, updatedBy |-> 3]},
     puts |-> {[doctor |-> 3], [createdBy |-> 3, updatedBy |-> 3], [time |-> T900]}]

NextEdit ==
    \/ PostCheck(Editing)
    \/ PutFind(Editing)
    \/ DeleteFind(Editing)
    \/ \E rq \in InFlight :
        \/ PostSave(rq)
        \/ PutCheckConflict(rq)
        \/ PutSave(rq)
        \/ DeleteSave(rq)

SpecEdit == Init /\ [][NextEdit]_vars

\* The last step answered a create or an update with success
Saved == last # NoResp /\ last.kind \in {"post", "put"} /\ last.success

\* C22: after every successful create or update the doctor of the appointment
\* is an existing active account with role doctor or admin, and a create or
\* update that names any other doctor is refused and writes nothing.
C22_DoctorResolves ==
    /\ Saved => FindDoctor(appts[last.id].doctor)
    /\ (/\ last # NoResp /\ last.kind \in {"post", "put"}
        /\ Has(last.body, "doctor") /\ ~FindDoctor(last.body.doctor))
       => ~last.success

\* Creates are held to the doctor check
C22_CreateDoctorResolves ==
    (last # NoResp /\ last.kind = "post" /\ last.success)
        => FindDoctor(appts[last.id].doctor)

----------------------------------------------------------------------------
\* Appointments at the edges of the working window

\* Appointment i starts inside the window and runs past its end
RunsPastEnd(i) ==
    /\ WorkStart * 60 <= StartMinutes(appts[i].time)
    /\ StartMinutes(appts[i].time) < WorkEnd * 60
    /\ EndMinutes(appts[i]) > WorkEnd * 60

\* The whole interval of appointment i lies before the window or at or after its end
OutsideWindow(i) ==
    \/ EndMinutes(appts[i]) <= WorkStart * 60
    \/ StartMinutes(appts[i].time) >= WorkEnd * 60

\* C23: in an availability answer, an active appointment of the doctor and
\* date that starts inside 09:00-17:00 and runs past 17:00 leaves no slot from
\* the first slot it overlaps through 16:30 in availableSlots; an active
\* appointment that lies wholly before 09:00 or at or after 17:00 is listed in
\* bookedSlots, and when every active appointment of the doctor and date lies
\* so, availableSlots holds all 16 grid slots.
C23_WindowEdges ==
    Answered =>
        LET free == Range(last.data.availableSlots)
        IN  /\ \A i \in Queried : RunsPastEnd(i) =>
                  \A g \in Grid :
                     StartMinutes(g) + SlotDuration > StartMinutes(appts[i].time)
                     => g \notin free
            /\ \A i \in Queried : OutsideWindow(i) =>
                  [time |-> appts[i].time, duration |-> appts[i].duration]
                      \in Range(last.data.bookedSlots)
            /\ (\A i \in Queried : OutsideWindow(i))
                  => (free = Grid /\ Len(last.data.availableSlots) = 16)

\* An appointment from 16:30 to 17:15 and one at 17:00 of the queried doctor
\* and date: the slot 16:30 is taken and the other 15 are free
C23_Witness ==
    /\ Answered
    /\ \E i, j \in Queried :
         /\ RunsPastEnd(i) /\ appts[i].time = T1630
         /\ OutsideWindow(j) /\ appts[j].time = T1700
    /\ Len(last.data.availableSlots) = 15
    /\ Len(last.data.bookedSlots) = 2

\* An appointment that ends before 09:00 is the only one of the queried doctor
\* and date, and all 16 slots are free
C23_WitnessOutside ==
    /\ Answered
    /\ Cardinality(Queried) = 1
    /\ \A i \in Queried : EndMinutes(appts[i]) <= WorkStart * 60
    /\ Len(last.data.availableSlots) = 16

----------------------------------------------------------------------------
\* Updates and cancels of one appointment by two accounts that interleave

Stamping ==
    [conc |-> MaxReq,
     clients |-> {1, 2},
     posts |-> {[patient |-> 1, doctor |-> 1, date |-> 1, time |-> T0900, duration |-> 30]},
     puts |-> {[status |-> "confirmed"], [duration |-> 60]}]

NextStamp ==
    \/ PostCheck(Stamping)
    \/ PutFind(Stamping)
    \/ DeleteFind(Stamping)
    \/ \E rq \in InFlight :
        \/ PostSave(rq)
        \/ PutSave(rq)
        \/ DeleteSave(rq)

SpecStamp == Init /\ [][NextStamp]_vars

----------------------------------------------------------------------------
\* Properties of the author fields

\* C24: when a create is answered with success the stored createdBy of its
\* appointment, and when an update or a cancel is answered with success the
\* stored updatedBy of its appointment, is the account authentication resolved
\* for that request, whatever createdBy or updatedBy the body carries.
C24_StampedByRequester ==
    [][\A rq \in BagToSet(req) :
          (Completes(rq) /\ last'.success)
          => /\ rq.kind = "post" => appts'[last'.id].createdBy = rq.user
             /\ rq.kind \in {"put", "delete"} => appts'[rq.id].updatedBy = rq.user]_vars

----------------------------------------------------------------------------
\* The derived end time over start times and durations

\* Start times through the day, written with and without a leading zero
ClockTimes ==
    {HHMM("0", "0", "0", "0"), T900, T0930, T1245, T1630,
     HHMM("1", "9", "5", "9"), HHMM("2", "2", "1", "5"), HHMM("2", "3", "0", "0"),
     HHMM("2", "3", "4", "5"), HHMM("2", "3", "5", "9")}

\* The shortest and the longest duration and durations between them
ClockDurations == {MinDuration, 45, 60, 61, 240, MaxDuration}

ClockAppts == {<<Stored(1, 1, t, d, "scheduled")>> : t \in ClockTimes, d \in ClockDurations}

Clocking == [headers |-> {Bearer(TokenOf(3))}, apptIds |-> {1}]

InitClock ==
    /\ appts \in ClockAppts
    /\ created = appts
    /\ users = ReadUsers
    /\ patients \in ReadPatients
    /\ req = EmptyBag
    /\ last = NoResp

NextClock == AppointmentGet(Clocking)

SpecClock == InitClock /\ [][NextClock]_vars

\* start + duration of appointment doc as minutes of a 24-hour day
WrappedEnd(doc) == (StartMinutes(doc.time) + doc.duration) % (24 * 60)

\* C25: the endTime of every appointment with a valid start time and a
\* duration from 15 to 480 is the HH:MM string of start + duration wrapped
\* into the 24-hour day: two digits of hours in 00-23, a colon, two digits of
\* minutes in 00-59.
C25_EndTimeWraps ==
    (last # NoResp /\ last.kind = "appt_get" /\ last.success)
    => LET doc == appts[last.id]
           end == last.data.endTime
       IN  /\ TimeFormatOK(doc.time) /\ DurationOK(doc.duration)
           /\ Len(end) = 5 /\ TimeFormatOK(end)
           /\ StartMinutes(end) = WrappedEnd(doc)

\* The endTime of an appointment that ends on the day it starts
C25_SameDayEnd ==
    (/\ last # NoResp /\ last.kind = "appt_get" /\ last.success
     /\ StartMinutes(appts[last.id].time) + appts[last.id].duration < 24 * 60)
    => /\ Len(last.data.endTime) = 5 /\ TimeFormatOK(last.data.endTime)
       /\ StartMinutes(last.data.endTime) = WrappedEnd(appts[last.id])

----------------------------------------------------------------------------
\* Times written in two ways

\* An active appointment other than id of the doctor and date of doc whose time
\* is another string for the minute of doc's time
SameMinuteOtherString(id, doc) ==
    \E j \in DOMAIN appts :
        /\ j # id /\ Active(appts[j])
        /\ appts[j].doctor = doc.doctor /\ appts[j].date = doc.date
        /\ appts[j].time # doc.time
        /\ StartMinutes(appts[j].time) = StartMinutes(doc.time)

\* C26: a create or an update at a time string is not answered with success
\* while another active appointment of the same doctor and date is stored at
\* the other string of the same wall-clock minute (9:00 and 09:00).
C26_SameMinuteRejected ==
    (Saved /\ Has(last.body, "time")) => ~SameMinuteOtherString(last.id, appts[last.id])

\* Creates and updates at the very string of an active appointment are refused
C26_SameStringRejected ==
    (Saved /\ Has(last.body, "time"))
    => ~\E j \in DOMAIN appts :
           /\ j # last.id /\ Active(appts[j])
           /\ IndexKey(appts[j]) = IndexKey(appts[last.id])

----------------------------------------------------------------------------
\* A create at a slot the availability answer lists

\* Body b names an active patient and an active doctor or admin account
NamesValidParties(b) == FindActivePatient(b.patient) /\ FindDoctor(b.doctor)

\* A cancelled or no-show appointment is stored at exactly key k
InactiveAt(k) == \E i \in DOMAIN appts : IndexKey(appts[i]) = k /\ ~Active(appts[i])

\* The slots an availability query for the doctor and date of b would list now
ListedNow(b) == Range(AvailableSlots(FindForAvailability(b.doctor, b.date)))

\* C27: with requests handled one after the other, a create for doctor D, a
\* date and a time that the availability answer just given lists for D and
\* that date, naming an active patient and D an active doctor or admin
\* account, passes the handler's checks; and a create past its checks whose
\* time is a listed slot is saved and answered 201, unless a cancelled or
\* no-show appointment is stored at exactly its (doctor, date, time).
C27_ListedSlotCanBeBooked ==
    [][/\ (/\ Answered
           /\ RefusesPost
           /\ last'.body.doctor = last.body.doctor /\ last'.body.date = last.body.date
           /\ last'.body.time \in Range(last.data.availableSlots)
           /\ NamesValidParties(last'.body))
          => FALSE
       /\ \A rq \in BagToSet(req) :
            (/\ rq.kind = "post" /\ Completes(rq)
             /\ rq.body.time \in ListedNow(rq.body)
             /\ ~InactiveAt(KeyOf(rq.body)))
            => /\ last'.status = 201
               /\ appts' = Append(appts, NewAppointment(rq.body, rq.user))]_vars

\* A create at 09:30, a slot listed while another active appointment of the
\* doctor and date was stored, has been saved
C27_Witness ==
    /\ last # NoResp
    /\ last.kind = "post" /\ last.status = 201
    /\ last.body.time = T0930
    /\ last.id = 2
    /\ Active(appts[1])
    /\ appts[1].doctor = last.body.doctor /\ appts[1].date = last.body.date
    /\ last.body.time \notin ListedNow(last.body)

----------------------------------------------------------------------------
\* Properties of the role and active fields of accounts

\* The accounts whose role this step changes
RoleChanged == {i \in DOMAIN users : users'[i].role # users[i].role}

\* Requester u is not an administrator: no account, or one with another role
NotAdmin(u) == u \notin DOMAIN users \/ users[u].role # "admin"

\* C28: a request of an account that is not an administrator changes the role
\* of no account: a PUT /users/:id of such an account goes on without the
\* role of its body, the step that answers it leaves every role as it was,
\* its own included, and a step that changes a role answers a PUT of an
\* administrator.
C28_RoleOnlyByAdmin ==
    [][/\ \A rq \in Entering :
            (rq.kind = "user_put" /\ NotAdmin(rq.user)) => ~Has(rq.body, "role")
       /\ \A rq \in BagToSet(req) :
            (Completes(rq) /\ NotAdmin(rq.user)) => RoleChanged = {}
       /\ RoleChanged # {}
            => \E rq \in BagToSet(req) :
                  /\ Completes(rq) /\ rq.kind = "user_put"
                  /\ ~NotAdmin(rq.user) /\ RoleChanged = {rq.id}
       /\ (last' # NoResp /\ req' = req) => RoleChanged = {}]_vars

\* A doctor's PUT of its own account that carried a role was saved without it
C28_Witness ==
    /\ last # NoResp
    /\ last.kind = "user_put" /\ last.status = 200
    /\ last.user = 2 /\ last.id = 2
    /\ last.body = NoBody
    /\ users[2].role = "doctor"

\* Updates whose body carries the active flag, and deletions, by the
\* administrator, the doctor and the staff account
Deactivating ==
    [conc |-> 1,
     headers |-> {Bearer(TokenOf(u)) : u \in DOMAIN SeedUsers},
     userIds |-> DOMAIN SeedUsers,
     userPuts |-> {[isActive |-> FALSE], [role |-> "staff"]}]

NextDeactivate ==
    \/ UserPutFind(Deactivating)
    \/ UserDeleteFind(Deactivating)
    \/ \E rq \in InFlight :
        \/ UserPutSave(rq)
        \/ UserDeleteSave(rq)

SpecDeactivate == InitUsersSpec /\ [][NextDeactivate]_vars

\* The accounts this step deactivates
Deactivated == {i \in DOMAIN users : users[i].isActive /\ ~users'[i].isActive}

\* C29: the active flag of an account goes from true to false only in the
\* step that answers with success a DELETE /users/:id of an administrator
\* other than that account; a DELETE of the requester's own id is answered
\* 400; no other request, a PUT /users/:id with any body included,
\* deactivates an account.
C29_DeactivatedOnlyByDelete ==
    [][/\ Deactivated # {}
            => \E rq \in BagToSet(req) :
                  /\ Completes(rq) /\ rq.kind = "user_delete" /\ last'.success
                  /\ ~NotAdmin(rq.user) /\ rq.user # rq.id
                  /\ Deactivated = {rq.id}
       /\ (/\ Answers /\ last'.kind = "user_delete"
           /\ ~NotAdmin(last'.user) /\ last'.id = last'.user)
            => (last'.status = 400 /\ users' = users)]_vars

\* Deletions deactivate only as stated
C29_DeleteDeactivates ==
    [][/\ \A rq \in BagToSet(req) :
            (Completes(rq) /\ rq.kind = "user_delete" /\ Deactivated # {})
            => /\ last'.success /\ ~NotAdmin(rq.user) /\ rq.user # rq.id
               /\ Deactivated = {rq.id}
       /\ (/\ Answers /\ last'.kind = "user_delete"
           /\ ~NotAdmin(last'.user) /\ last'.id = last'.user)
            => (last'.status = 400 /\ users' = users)]_vars

----------------------------------------------------------------------------
\* The author of an appointment

\* C30: the createdBy of a stored appointment never changes: every step, the
\* saves of PUT and DELETE /appointments/:id included, leaves the createdBy of
\* every appointment equal to the account that created it, whatever the body
\* of the request carries.
C30_CreatedByFrozen ==
    [][\A i \in DOMAIN appts :
          /\ appts'[i].createdBy = appts[i].createdBy
          /\ appts'[i].createdBy = created[i].createdBy]_vars

\* A cancel, and an update whose body names no createdBy, leave createdBy as it was
C30_CreatedByKeptUnlessNamed ==
    [][\A rq \in BagToSet(req) :
          (Completes(rq) /\ ~Has(rq.body, "createdBy"))
          => \A i \in DOMAIN appts : appts'[i].createdBy = appts[i].createdBy]_vars
====
